---- MODULE Spec2Model ----
(***************************************************************************)
(* Model of the chat client's WebSocket streaming manager                  *)
(* (hooks/useWebSocketManager), the zustand chat store                     *)
(* (state/store/chatStore.ts) with its persistence, the reconciliation of  *)
(* fetched conversations (features/chat/chat-page.tsx) and the optimistic  *)
(* mutations of the cached conversation list (hooks).                      *)
(*                                                                         *)
(* Strings are sequences of one-character strings, so that concatenation   *)
(* is \o and the prefix/suffix markers the code adds are visible.          *)
(* A JavaScript record (Record<string, T>) is a function whose DOMAIN is   *)
(* the set of keys present, so `id in record` is id \in DOMAIN record.     *)
(***************************************************************************)
EXTENDS Integers, Sequences, FiniteSets, TLC

\* ---------------------------------------------------------------- bounds
MaxSockets == 2        \* WebSocket objects alive (not yet collectable) at once
MaxStopTimers == 2     \* pending 200 ms timers of stopStreaming
MaxStore == 3          \* durable messages plus characters from the server
                       \*   that the store holds
ConnMaxStore == 3      \* the same, where the connection is the subject
MaxInFlight == 2       \* accepted sendMessage frames counted per conversation
MaxDocuments == 1      \* documents attached to one conversation
MaxList == 2           \* messages in a local or a fetched message list
MaxMutations == 2      \* mutations between onMutate and their outcome
MaxConversations == 2  \* records in the cached conversations list
MaxChunks == 5         \* chunks of one thinking stream
MaxDeltas == 4         \* appends to the content of one buffered message
MaxEventSources == 2   \* EventSource objects the composer creates
MaxChunkCount == 1     \* chunk count an ingestion event reports
MaxSubmits == 2        \* messages the composer submits
MaxWords == 2          \* words of a typed message
MaxLines == 1          \* lines the buffer has flushed when its content is
                       \*   replaced

\* ------------------------------------------------------------ input sets
Conversations == {"A", "B"}
NoConversation == ""                \* a missing conversation_id is falsy
Tokens == {<<>>, <<"x">>, <<"y">>}  \* data.content of a token event
Thinkings == {<<>>, <<"t">>}        \* data.content of a thinking event
Absent == <<"<absent>">>            \* a field the server left out
ErrorTexts == {<<"m">>, Absent}     \* data.message of an error event
SockIds == 1..MaxSockets
NoSocket == 0                       \* wsRef.current === null
null == "<null>"                    \* the value null
undefined == "<undefined>"          \* the value undefined
DefaultModel == "PleIAs/Baguettotron"
Models == {DefaultModel, "custom-model"}
ClientIds == {"client-1"}
UserMessage == [role |-> "user", content |-> <<"u">>]

\* messages as the composer and the manager add them to the local list: the
\* composer always sets `documents` (possibly to the empty array)
LocalMessages ==
  {[role |-> "user", content |-> <<"u">>, documents |-> <<"d1">>],
   [role |-> "user", content |-> <<"u">>, documents |-> <<>>],
   [role |-> "assistant", content |-> <<"x">>],
   [role |-> "assistant", content |-> <<"x">>, thinking |-> <<"t">>]}

\* messages of a fetched conversation: role, content, optional thinking
ServerMessages ==
  {[role |-> "user", content |-> <<"v">>],
   [role |-> "assistant", content |-> <<"x">>],
   [role |-> "assistant", content |-> <<"x">>, thinking |-> <<"t">>]}

ListsOver(S, n) == UNION {[1..k -> S] : k \in 0..n}

\* the texts a replaced content prop holds, and the tokens it grows by
Replacements == {<<"b">>, <<"b", "\n">>, <<"a", "\n", "b">>,
                 <<"b", "\n", "*", "*">>}
ReplacementDeltas == {<<"a">>, <<"b">>, <<"\n">>, <<"*", "*">>}

\* the Document an upload returns, normalized: processing, no chunks yet,
\* with the URL of its event stream
DocumentIds == {"d1", "d2"}
UploadedDocument(id, conversationId) ==
  [id |-> id, conversationId |-> conversationId, filename |-> "f.pdf",
   status |-> "processing", chunkCount |-> 0, sse_url |-> "/sse"]

\* payloads of the ingestion event stream; NoCount is a payload without
\* chunk_count and chunkCount
NoCount == -1
ChunkCounts == 0..MaxChunkCount
NoPayloadField == "<none>"
DocumentEvents ==
  [type : {"status"}, status : {"processing", "ready", "failed"},
   chunk_count : ChunkCounts \cup {NoCount}, error : {NoPayloadField}]
  \cup [type : {"persisted", "chunking_done"}, status : {NoPayloadField},
        chunk_count : ChunkCounts \cup {NoCount}, error : {NoPayloadField}]
  \cup [type : {"failed"}, status : {NoPayloadField}, chunk_count : {NoCount},
        error : {"boom"}]
  \cup [type : {"embedding_done", NoPayloadField}, status : {NoPayloadField},
        chunk_count : {NoCount}, error : {NoPayloadField}]

\* what the user types: words of one letter joined by single spaces, of
\* lengths around the 50 characters of the title, with or without a space in
\* front
WordLengths == {1, 24, 25, 49, 50, 51}
Word(n) == [i \in 1..n |-> "w"]
RECURSIVE JoinWords(_)
JoinWords(lengths) ==
  IF Len(lengths) = 1 THEN Word(lengths[1])
  ELSE Word(lengths[1]) \o <<" ">> \o JoinWords(Tail(lengths))
TypedMessages ==
  LET joined == {JoinWords(ls) :
                   ls \in UNION {[1..n -> WordLengths] : n \in 1..MaxWords}}
  IN joined \cup {<<" ">> \o m : m \in joined}

\* short texts of the textarea
ShortInputs == {<<>>, <<" ">>, <<"h", "i">>}

\* what one token adds to the content of a message: markdown markers, a line
\* break, text, and a closing marker followed by a further line
Backtick == "^"                     \* stands for the backtick character
ContentDeltas ==
  {<<Backtick>>, <<Backtick, Backtick, Backtick>>, <<"*", "*">>, <<"_", "_">>, <<"~", "~">>,
   <<"\n">>, <<"a">>, <<"*", "*", "\n", "a", "\n">>}

\* what one delivery adds to a thinking stream: pieces of a marker, a marker
\* with its blank, line breaks, blanks and text
ThinkingChunks ==
  {<<"#">>, <<"#", "#">>, <<"#", "#", "#", " ">>, <<"\n">>, <<" ">>,
   <<"a">>, <<"b">>}

\* the query cache entry ['conversations', clientId]: getQueryData returns
\* undefined until a fetch has resolved or a mutation has written the entry
NotLoaded == [loaded |-> FALSE, data |-> <<>>]
Loaded(list) == [loaded |-> TRUE, data |-> list]

\* a Conversation as the server lists it (the three timestamps are left out)
ServerConversation(id) == [id |-> id, title |-> "Chat", message_count |-> 1]

\* lists the server returns: each conversation at most once
ServerLists ==
  {l \in ListsOver({ServerConversation(id) : id \in Conversations},
                   MaxConversations) :
     \A i, j \in 1..Len(l) : l[i].id = l[j].id => i = j}
Documents ==
  [id : {"d1", "d2"}, filename : {"f.pdf"}, status : {"processing"},
   chunkCount : {0}]

\* literals of the source
ConnectionLostSuffix == <<"\n\n(Connection lost)">>
ConnectionLostOnly == <<"(Connection lost)">>
ErrorPrefix == <<"Error: ">>
EmptyRecord == [c \in {} |-> <<>>]     \* the object literal {}

VARIABLES
  messagesByConversation,   \* store: conversation id -> sequence of messages
  streamingByConversation,  \* store: conversation id -> streaming message
  isConnected,              \* store
  backendReady,             \* store
  wsRef,                    \* wsRef.current: a socket id or NoSocket
  isConnectingRef,          \* isConnectingRef.current
  pendingRequestsRef,       \* keys of pendingRequestsRef.current
  connectionLostHandledRef, \* connectionLostHandledRef.current
  readyState,               \* socket id -> readyState of that WebSocket
  reconnectTimers,          \* sockets whose onclose 3000 ms timer is pending
  stopTimers,               \* number of pending 200 ms timers
  mounted,                  \* the manager's component is mounted
  tokensSinceStart,         \* history: tokens addressed to a streaming conversation
  reclassified,             \* history: streams that saw a reclassify event
  inFlight,                 \* history: accepted frames whose response has not ended
  stoppedOn,                \* history: socket id -> conversations whose
                            \*   stopStreaming closed it, until its close event
  documentsByConversation,  \* store: conversation id -> sequence of documents
  thinkingMode,             \* store
  selectedModel,            \* store
  clientId,                 \* store
  activeConversationId,     \* store
  isSettingsOpen,           \* store
  conversationsCache,       \* query cache entry ['conversations', clientId]
  pendingMutations,         \* mutations between onMutate and their outcome
  conversationData,         \* query cache entries ['conversation', id, clientId]:
                            \*   conversation id -> fetched message list
  openStreams,              \* history: conversations started and not yet
                            \*   completed or cleared
  thinkingSinceStart,       \* history: conversation -> what the updates since
                            \*   its start did to the thinking
  fullContent,              \* ResilientThinkingParser.fullContent
  sectionsEmitted,          \* ResilientThinkingParser.sectionsEmitted
  emitted,                  \* history: the sections processChunk has returned
  finalized,                \* history: what finalizeBuffer returned, if called
  sections,                 \* ThinkingTrace: the sections state
  chunksReceived,           \* history: chunks the thinking stream has delivered
  contentProp,              \* useBufferedLineAnimation: the content prop
  isStreaming,              \* useBufferedLineAnimation: the isStreaming prop
  lines,                    \* useBufferedLineAnimation: the lines state
  isBuffering,              \* useBufferedLineAnimation: the isBuffering state
  bufferRef,                \* bufferRef.current
  previousContentRef,       \* previousContentRef.current
  processedLengthRef,       \* processedLengthRef.current
  lineIdCounterRef,         \* lineIdCounterRef.current
  deltasReceived,           \* history: appends since the content was empty
  composerConversationId,   \* MessageInput: the conversationId prop
  composerMounted,          \* MessageInput is mounted
  pendingDocuments,         \* MessageInput: the pendingDocuments state
  documentStreamsRef,       \* documentStreamsRef.current: document id ->
                            \*   EventSource
  eventSources,             \* the EventSource objects created so far, each
                            \*   with what its onmessage closes over
  reported,                 \* history: document id -> highest chunk count an
                            \*   event has reported
  terminated,               \* history: documents whose persisted or failed
                            \*   event was handled
  input,                    \* MessageInput: the input state
  isCreatingConversation,   \* MessageInput: the isCreatingConversation state
  createCallbacks,          \* conversations whose createMutation.mutate
                            \*   callbacks of the composer are pending
  titleRequests,            \* the variables of the updateMutation.mutate
                            \*   calls, in order
  hasChecked,               \* useBackendConnection: hasChecked.current
  healthCheck,              \* where checkBackend stands: idle, fetching,
                            \*   waiting or done
  retryCount,               \* checkBackend: retryCount
  attempts,                 \* history: fetches of the health endpoint that
                            \*   have settled
  lastFailure,              \* history: how the last failed attempt failed
  delay                     \* the delay of the last backoff timer, in ms

\* the thinking parser and the ThinkingTrace component
parserVars == <<fullContent, sectionsEmitted, emitted, finalized, sections,
                chunksReceived>>

\* useBufferedLineAnimation
bufferVars == <<contentProp, isStreaming, lines, isBuffering, bufferRef,
                previousContentRef, processedLengthRef, lineIdCounterRef,
                deltasReceived>>

\* the composer and its document subscriptions
draftVars == <<input, isCreatingConversation, createCallbacks, titleRequests>>

composerVars == <<composerConversationId, composerMounted, pendingDocuments,
                  documentStreamsRef, eventSources, reported, terminated,
                  draftVars>>

\* the health check of useBackendConnection
healthVars == <<hasChecked, healthCheck, retryCount, attempts, lastFailure,
                delay>>

\* state local to components and hooks
viewVars == <<parserVars, bufferVars, composerVars, healthVars>>

vars == <<messagesByConversation, streamingByConversation, isConnected,
          backendReady, wsRef, isConnectingRef, pendingRequestsRef,
          connectionLostHandledRef, readyState, reconnectTimers, stopTimers,
          mounted, tokensSinceStart, reclassified, inFlight, stoppedOn,
          documentsByConversation, thinkingMode, selectedModel, clientId,
          activeConversationId, isSettingsOpen, conversationsCache,
          pendingMutations, conversationData, openStreams,
          thinkingSinceStart, viewVars>>

\* the query cache
queryVars == <<conversationsCache, pendingMutations, conversationData>>

\* what the WebSocket manager never touches
appVars == <<documentsByConversation, thinkingMode, selectedModel, clientId,
             activeConversationId, isSettingsOpen, queryVars, viewVars>>

storeVars == <<messagesByConversation, streamingByConversation>>

\* the connection, which a direct call of a store action does not touch
connectionVars == <<isConnected, backendReady, wsRef, isConnectingRef,
                    pendingRequestsRef, connectionLostHandledRef, readyState,
                    reconnectTimers, stopTimers, mounted, inFlight, stoppedOn>>

\* the history of the streams
streamHistory == <<tokensSinceStart, reclassified, openStreams,
                   thinkingSinceStart>>

\* ------------------------------------------------------------ chatStore
\* template literal `${m}`: an absent value prints as "undefined"
TemplateString(m) == IF m = Absent THEN <<"undefined">> ELSE m

\* mutant: the thinking key is kept even when it is empty
AssistantMessage_keepsEmptyThinking(content, thinking) ==
  [role |-> "assistant", content |-> content, thinking |-> thinking]

\* { role: 'assistant', content, thinking: thinking || undefined }
AssistantMessage(content, thinking) ==
  IF thinking # <<>>
  THEN [role |-> "assistant", content |-> content, thinking |-> thinking]
  ELSE [role |-> "assistant", content |-> content]

getMessages(mbc, conversationId) ==
  IF conversationId \in DOMAIN mbc THEN mbc[conversationId] ELSE <<>>

addMessage(mbc, conversationId, message) ==
  [c \in DOMAIN mbc \cup {conversationId} |->
     IF c = conversationId
     THEN Append(getMessages(mbc, conversationId), message)
     ELSE mbc[c]]

NewStreamingMessage == [role |-> "assistant", content |-> <<>>, thinking |-> <<>>]

startStreaming(sbc, conversationId) ==
  [c \in DOMAIN sbc \cup {conversationId} |->
     IF c = conversationId THEN NewStreamingMessage ELSE sbc[c]]

\* mutant: the token goes in front of the accumulated content
updateStreamingMessage_prepends(sbc, conversationId, tokenContent, thinking) ==
  IF conversationId \notin DOMAIN sbc
  THEN sbc
  ELSE [sbc EXCEPT ![conversationId] =
          [role |-> "assistant",
           content |-> tokenContent \o sbc[conversationId].content,
           thinking |-> IF thinking = Absent
                        THEN sbc[conversationId].thinking
                        ELSE thinking]]

\* thinking = Absent models the omitted (undefined) third argument
updateStreamingMessage(sbc, conversationId, tokenContent, thinking) ==
  IF conversationId \notin DOMAIN sbc
  THEN sbc
  ELSE [sbc EXCEPT ![conversationId] =
          [role |-> "assistant",
           content |-> sbc[conversationId].content \o tokenContent,
           thinking |-> IF thinking = Absent
                        THEN sbc[conversationId].thinking
                        ELSE thinking]]

reclassifyThinkingAsResponse(sbc, conversationId) ==
  IF conversationId \notin DOMAIN sbc
  THEN sbc
  ELSE [sbc EXCEPT ![conversationId] =
          [role |-> "assistant",
           content |-> sbc[conversationId].thinking \o sbc[conversationId].content,
           thinking |-> <<>>]]

\* mutant: the whole streaming record is reset
completeStreaming_clearsAll(sbc, conversationId) ==
  [c \in {} |-> sbc[c]]

completeStreaming(sbc, conversationId) ==
  [c \in DOMAIN sbc \ {conversationId} |-> sbc[c]]

\* state.streamingByConversation[conversationId] || null; the result is the
\* one-element sequence of the message, the empty sequence stands for null
getStreamingMessage(sbc, conversationId) ==
  IF conversationId \in DOMAIN sbc THEN <<sbc[conversationId]>> ELSE <<>>

isConversationStreaming(sbc, conversationId) == conversationId \in DOMAIN sbc

\* mutant: the last message of the list is not stored
setMessages_withoutLast(mbc, conversationId, messages) ==
  [c \in DOMAIN mbc \cup {conversationId} |->
     IF c = conversationId
     THEN SubSeq(messages, 1, Len(messages) - 1)
     ELSE mbc[c]]

setMessages(mbc, conversationId, messages) ==
  [c \in DOMAIN mbc \cup {conversationId} |->
     IF c = conversationId THEN messages ELSE mbc[c]]

\* mutant: only the messages are deleted, the streaming entry stays
clearMessages_keepsStreaming(mbc, sbc, conversationId) ==
  [messages |-> [c \in DOMAIN mbc \ {conversationId} |-> mbc[c]],
   streaming |-> sbc]

clearMessages(mbc, sbc, conversationId) ==
  [messages |-> [c \in DOMAIN mbc \ {conversationId} |-> mbc[c]],
   streaming |-> [c \in DOMAIN sbc \ {conversationId} |-> sbc[c]]]

getStreamingConversations(sbc) == DOMAIN sbc

addDocument(dbc, conversationId, document) ==
  [c \in DOMAIN dbc \cup {conversationId} |->
     IF c = conversationId
     THEN Append(IF conversationId \in DOMAIN dbc
                 THEN dbc[conversationId] ELSE <<>>, document)
     ELSE dbc[c]]

\* ----------------------------------------------------------- reconciliation
\* m.thinking, Absent standing for undefined
ThinkingOf(m) == IF "thinking" \in DOMAIN m THEN m.thinking ELSE Absent

hasChanges(serverMessages, existingMessages) ==
  \E index \in 1..Len(serverMessages) :
     LET serverMsg == serverMessages[index]
         localMsg == existingMessages[index]
     IN \/ serverMsg.role # localMsg.role
        \/ serverMsg.content # localMsg.content
        \/ ThinkingOf(serverMsg) # ThinkingOf(localMsg)

\* { ...serverMsg, documents }
WithDocuments(serverMsg, documents) ==
  [k \in DOMAIN serverMsg \cup {"documents"} |->
     IF k = "documents" THEN documents ELSE serverMsg[k]]

\* mutant: the server's messages are adopted as they are
mergedMessages_dropsDocuments(serverMessages, existingMessages) ==
  serverMessages

\* an array is truthy even when empty, so `localMsg.documents` is the
\* presence of the field
mergedMessages(serverMessages, existingMessages) ==
  [index \in 1..Len(serverMessages) |->
     IF /\ index <= Len(existingMessages)
        /\ existingMessages[index].role = serverMessages[index].role
        /\ "documents" \in DOMAIN existingMessages[index]
     THEN WithDocuments(serverMessages[index],
                        existingMessages[index].documents)
     ELSE serverMessages[index]]

\* mutant: the streaming check is missing
reconcile_whileStreaming(mbc, sbc, conversationId, serverMessages) ==
  setMessages(mbc, conversationId, serverMessages)

\* messagesByConversation after the "load messages" effect of ChatPage has
\* run with the fetched serverMessages
reconcile(mbc, sbc, conversationId, serverMessages) ==
  LET existingMessages == getMessages(mbc, conversationId)
  IN IF isConversationStreaming(sbc, conversationId) THEN mbc
     ELSE IF Len(existingMessages) = 0
          THEN setMessages(mbc, conversationId, serverMessages)
     ELSE IF Len(serverMessages) > Len(existingMessages)
          THEN setMessages(mbc, conversationId, serverMessages)
     ELSE IF Len(serverMessages) = Len(existingMessages)
          THEN IF hasChanges(serverMessages, existingMessages)
               THEN setMessages(mbc, conversationId,
                                mergedMessages(serverMessages, existingMessages))
               ELSE mbc
     ELSE IF Len(serverMessages) > Len(existingMessages)
          THEN setMessages(mbc, conversationId,
                           mergedMessages(serverMessages, existingMessages))
     ELSE mbc

\* -------------------------------------------------------------- persistence
\* the store's fields as the creator function sets them
InitialState ==
  [messagesByConversation |-> EmptyRecord,
   streamingByConversation |-> EmptyRecord,
   documentsByConversation |-> EmptyRecord,
   isConnected |-> FALSE,
   backendReady |-> FALSE,
   thinkingMode |-> TRUE,
   selectedModel |-> DefaultModel,
   clientId |-> null,
   activeConversationId |-> null,
   isSettingsOpen |-> FALSE]

\* mutant: the transient streaming state is persisted as well
partialize_withStreaming ==
  [messagesByConversation |-> messagesByConversation,
   streamingByConversation |-> streamingByConversation,
   documentsByConversation |-> documentsByConversation,
   thinkingMode |-> thinkingMode,
   selectedModel |-> selectedModel,
   clientId |-> clientId]

\* the payload written to storage for the current state
partialize ==
  [messagesByConversation |-> messagesByConversation,
   documentsByConversation |-> documentsByConversation,
   thinkingMode |-> thinkingMode,
   selectedModel |-> selectedModel,
   clientId |-> clientId]

\* the persist middleware's default merge: { ...currentState, ...persistedState }
merge(persistedState, currentState) ==
  [k \in DOMAIN currentState \cup DOMAIN persistedState |->
     IF k \in DOMAIN persistedState THEN persistedState[k] ELSE currentState[k]]

\* -------------------------------------------------------------- helpers
RECURSIVE SumOver(_, _)
SumOver(f, S) ==
  IF S = {} THEN 0
  ELSE LET c == CHOOSE x \in S : TRUE
       IN f[c] + SumOver(f, S \ {c})

\* the characters of a string that came from the server
RECURSIVE ServerChars(_)
ServerChars(str) ==
  IF str = <<>> THEN 0
  ELSE (IF Head(str) \in {"x", "y", "t", "u", "m"} THEN 1 ELSE 0)
       + ServerChars(Tail(str))

MessageChars(m) ==
  ServerChars(m.content)
  + (IF "thinking" \in DOMAIN m THEN ServerChars(m.thinking) ELSE 0)

RECURSIVE SeqChars(_)
SeqChars(msgs) ==
  IF msgs = <<>> THEN 0 ELSE MessageChars(Head(msgs)) + SeqChars(Tail(msgs))

TotalMessages ==
  SumOver([c \in DOMAIN messagesByConversation |->
             Len(messagesByConversation[c])],
          DOMAIN messagesByConversation)

TotalChars ==
  SumOver([c \in DOMAIN messagesByConversation |->
             SeqChars(messagesByConversation[c])],
          DOMAIN messagesByConversation)
  + SumOver([c \in DOMAIN streamingByConversation |->
               MessageChars(streamingByConversation[c])],
            DOMAIN streamingByConversation)

\* the part of the state space explored when the streamed text matters
Within == TotalMessages + TotalChars <= MaxStore

\* WebSocket.close(): only a connecting or open socket starts closing
CloseCall(rs, s) ==
  IF rs[s] \in {"CONNECTING", "OPEN"} THEN [rs EXCEPT ![s] = "CLOSING"] ELSE rs

\* a socket object nothing refers to any more can be collected and its
\* id reused for the next `new WebSocket`
FreeSockets ==
  {s \in SockIds : /\ readyState[s] \in {"UNBORN", "CLOSED"}
                   /\ s # wsRef
                   /\ s \notin reconnectTimers}

\* connect() gets past its three early returns; `ready` is the backendReady
\* captured by the closure
ConnectProceeds(ready, ws, connecting, rs) ==
  /\ ready
  /\ ~connecting
  /\ ~(ws # NoSocket /\ rs[ws] = "OPEN")

NewSocket == CHOOSE s \in FreeSockets : \A t \in FreeSockets : s <= t

\* history variables keep entries of streaming conversations only
Restrict(f, sbc, default) ==
  [c \in Conversations |-> IF c \in DOMAIN sbc THEN f[c] ELSE default]

\* ------------------------------------------------- thinking trace parsing
Whitespace == {" ", "\n"}           \* what \s and trim() match in the inputs
Marker == <<"#", "#", "#">>
Ellipsis == <<".", ".", ".">>

MinOf(S) == CHOOSE n \in S : \A k \in S : n <= k
MaxOf(S) == CHOOSE n \in S : \A k \in S : n >= k

\* str.indexOf('###'): 0-based, -1 when there is none
indexOfMarker(str) ==
  LET at == {i \in 1..(Len(str) - 2) : SubSeq(str, i, i + 2) = Marker}
  IN IF at = {} THEN -1 ELSE MinOf(at) - 1

\* str.slice(from) and str.slice(0, to), 0-based, end exclusive
sliceFrom(str, from) == SubSeq(str, from + 1, Len(str))
sliceTo(str, to) == SubSeq(str, 1, IF to < Len(str) THEN to ELSE Len(str))

\* str.trim()
trim(str) ==
  LET solid == {i \in 1..Len(str) : str[i] \notin Whitespace}
  IN IF solid = {} THEN <<>> ELSE SubSeq(str, MinOf(solid), MaxOf(solid))

\* str.split(/###\s+/) from position i on, the current piece starting at start
RECURSIVE splitFrom(_, _, _)
splitFrom(str, i, start) ==
  IF i > Len(str) THEN <<SubSeq(str, start, Len(str))>>
  ELSE IF /\ i + 3 <= Len(str)
          /\ SubSeq(str, i, i + 2) = Marker
          /\ str[i + 3] \in Whitespace
       THEN LET solid == {j \in (i + 3)..Len(str) : str[j] \notin Whitespace}
                next == IF solid = {} THEN Len(str) + 1 ELSE MinOf(solid)
            IN <<SubSeq(str, start, i - 1)>> \o splitFrom(str, next, next)
       ELSE splitFrom(str, i + 1, start)

\* structuredPart.split(/###\s+/).filter(p => p.trim())
parts(structuredPart) ==
  LET Solid(p) == trim(p) # <<>>
  IN SelectSeq(splitFrom(structuredPart, 1, 1), Solid)

\* a section, or null as the empty sequence
parseStructuredSection(raw) ==
  LET breaks == {i \in 1..Len(raw) : raw[i] = "\n"}
      title == IF breaks = {} THEN trim(raw)
               ELSE trim(SubSeq(raw, 1, MinOf(breaks) - 1))
      content == IF breaks = {} THEN <<>>
                 ELSE trim(SubSeq(raw, MinOf(breaks) + 1, Len(raw)))
  IN IF title = <<>> THEN <<>>
     ELSE <<[title |-> title,
             content |-> IF content = <<>> THEN Ellipsis ELSE content]>>

RECURSIVE structuredSections(_)
structuredSections(ps) ==
  IF ps = <<>> THEN <<>>
  ELSE parseStructuredSection(Head(ps)) \o structuredSections(Tail(ps))

\* { title: text.slice(0, 5) + '...', content }
synthesized(titleSource, content) ==
  <<[title |-> sliceTo(titleSource, 5) \o Ellipsis, content |-> content]>>

\* allSections of extractCompleteSections, which runs when a marker exists
allSectionsOfChunk(content) ==
  LET firstMarkerIndex == indexOfMarker(content)
      leadingContent == trim(sliceTo(content, firstMarkerIndex))
  IN (IF leadingContent # <<>>
      THEN synthesized(leadingContent, leadingContent) ELSE <<>>)
     \o structuredSections(parts(sliceFrom(content, firstMarkerIndex)))

\* the new sections and the new count
extractCompleteSections(content, count) ==
  IF indexOfMarker(content) = -1
  THEN [newSections |-> <<>>, sectionsEmitted |-> count]
  ELSE LET allSections == allSectionsOfChunk(content)
           completeSections == Len(allSections) - 1
       IN [newSections |-> SubSeq(allSections, count + 1, completeSections),
           sectionsEmitted |-> IF completeSections > count
                               THEN completeSections ELSE count]

\* allSections of finalizeBuffer
allSectionsOfBuffer(content) ==
  LET firstMarkerIndex == indexOfMarker(content)
      leadingContent == trim(sliceTo(content, firstMarkerIndex))
  IN IF firstMarkerIndex # -1
     THEN (IF firstMarkerIndex > 0 /\ leadingContent # <<>>
           THEN synthesized(leadingContent, leadingContent) ELSE <<>>)
          \o structuredSections(parts(sliceFrom(content, firstMarkerIndex)))
     ELSE IF trim(content) # <<>>
          THEN synthesized(trim(content), trim(content))
          ELSE <<>>

\* the last section, or null as the empty sequence
finalizeBuffer_ignoresCount(content, count) ==
  LET allSections == allSectionsOfBuffer(content)
  IN IF Len(allSections) > 0
     THEN <<allSections[Len(allSections)]>> ELSE <<>>

finalizeBuffer(content, count) ==
  LET allSections == allSectionsOfBuffer(content)
  IN IF Len(allSections) > count
     THEN <<allSections[Len(allSections)]>> ELSE <<>>

\* the sections the effect of ThinkingTrace sets (title and content; the
\* isStreaming flag of a section is left out)
thinkingTraceSections(streamingTrace) ==
  LET firstMarkerIndex == indexOfMarker(streamingTrace)
      leadingContent == trim(sliceTo(streamingTrace, firstMarkerIndex))
  IN IF firstMarkerIndex = -1
     THEN IF trim(streamingTrace) # <<>>
          THEN synthesized(streamingTrace, trim(streamingTrace))
          ELSE <<>>
     ELSE (IF leadingContent # <<>>
           THEN synthesized(leadingContent, leadingContent) ELSE <<>>)
          \o structuredSections(parts(sliceFrom(streamingTrace,
                                                firstMarkerIndex)))

NotFinalized == [called |-> FALSE, section |-> <<>>]

ParserInit ==
  /\ fullContent = <<>>
  /\ sectionsEmitted = 0
  /\ emitted = <<>>
  /\ finalized = NotFinalized
  /\ sections = <<>>
  /\ chunksReceived = 0

ParserReset ==
  /\ fullContent' = <<>>
  /\ sectionsEmitted' = 0
  /\ emitted' = <<>>
  /\ finalized' = NotFinalized
  /\ sections' = <<>>
  /\ chunksReceived' = 0

\* ------------------------------------------------ buffered line animation
\* (text.match(pattern) || []).length for a literal pattern with the g flag:
\* matches are counted left to right and do not overlap
RECURSIVE countMatches(_, _, _)
countMatches(text, pattern, i) ==
  IF i + Len(pattern) - 1 > Len(text) THEN 0
  ELSE IF SubSeq(text, i, i + Len(pattern) - 1) = pattern
       THEN 1 + countMatches(text, pattern, i + Len(pattern))
       ELSE countMatches(text, pattern, i + 1)

Fence == <<Backtick, Backtick, Backtick>>

\* text.replace(/```[\s\S]*?```/g, '') from position i on
RECURSIVE withoutCodeBlocks(_, _)
withoutCodeBlocks(text, i) ==
  IF i > Len(text) THEN <<>>
  ELSE LET closing == {j \in (i + 3)..(Len(text) - 2) :
                          SubSeq(text, j, j + 2) = Fence}
       IN IF /\ i + 2 <= Len(text)
             /\ SubSeq(text, i, i + 2) = Fence
             /\ closing # {}
          THEN withoutCodeBlocks(text, MinOf(closing) + 3)
          ELSE <<text[i]>> \o withoutCodeBlocks(text, i + 1)

Odd(n) == n % 2 = 1

isMarkdownComplete(text) ==
  /\ ~Odd(countMatches(text, Fence, 1))
  /\ ~Odd(countMatches(withoutCodeBlocks(text, 1), <<Backtick>>, 1))
  /\ ~Odd(countMatches(text, <<"*", "*">>, 1))
  /\ ~Odd(countMatches(text, <<"_", "_">>, 1))
  /\ ~Odd(countMatches(text, <<"~", "~">>, 1))

\* str.startsWith(prefix)
startsWith(str, prefix) ==
  Len(prefix) <= Len(str) /\ SubSeq(str, 1, Len(prefix)) = prefix

\* the while loop of the content effect
RECURSIVE extractChunks(_, _, _)
extractChunks(bufferContent, accumulatedContent, completeChunks) ==
  LET breaks == {i \in 1..Len(bufferContent) : bufferContent[i] = "\n"}
      newlineIndex == MinOf(breaks) - 1
      chunk == sliceTo(bufferContent, newlineIndex + 1)
      accumulated == accumulatedContent \o chunk
  IN IF breaks = {}
     THEN [completeChunks |-> completeChunks,
           finalBuffer |-> accumulatedContent \o bufferContent]
     ELSE IF isMarkdownComplete(accumulated)
          THEN extractChunks(sliceFrom(bufferContent, Len(accumulated)),
                             <<>>, Append(completeChunks, accumulated))
          ELSE extractChunks(sliceFrom(bufferContent, newlineIndex + 1),
                             accumulated, completeChunks)

\* the lines appended for chunks, ids counted from counter (the animation
\* flag and the timestamp of a line are left out)
newLines(chunks, counter) ==
  [i \in 1..Len(chunks) |-> [id |-> counter + i - 1, content |-> chunks[i]]]

\* the hook's refs and state as one record
HookState ==
  [lines |-> lines, isBuffering |-> isBuffering, bufferRef |-> bufferRef,
   previousContentRef |-> previousContentRef,
   processedLengthRef |-> processedLengthRef,
   lineIdCounterRef |-> lineIdCounterRef]

\* the effect on [content]: process new content
contentEffect_flushesAtEveryBreak(h, newContent) ==
  LET appended == sliceFrom(newContent, h.processedLengthRef)
      buffer == h.bufferRef \o appended
      flushes == buffer # <<>> /\ buffer[Len(buffer)] = "\n"
  IN [lines |-> IF flushes
                THEN Append(h.lines, [id |-> h.lineIdCounterRef,
                                      content |-> buffer])
                ELSE h.lines,
      isBuffering |-> ~flushes /\ buffer # <<>>,
      bufferRef |-> IF flushes THEN <<>> ELSE buffer,
      previousContentRef |-> newContent,
      processedLengthRef |-> Len(newContent),
      lineIdCounterRef |-> h.lineIdCounterRef + (IF flushes THEN 1 ELSE 0)]

contentEffect(h, newContent) ==
  LET isSimpleAppend == startsWith(newContent, h.previousContentRef)
      replaced == ~isSimpleAppend /\ h.previousContentRef # <<>>
      appended == sliceFrom(newContent, h.processedLengthRef)
      buffer == IF replaced THEN newContent ELSE h.bufferRef \o appended
      extracted == extractChunks(buffer, <<>>, <<>>)
  IN IF ~replaced /\ appended = <<>> THEN h
     ELSE [lines |-> h.lines \o newLines(extracted.completeChunks,
                                         h.lineIdCounterRef),
           isBuffering |-> Len(extracted.finalBuffer) > 0,
           bufferRef |-> extracted.finalBuffer,
           previousContentRef |-> newContent,
           processedLengthRef |-> Len(newContent),
           lineIdCounterRef |-> h.lineIdCounterRef
                                + Len(extracted.completeChunks)]

\* the effect on [isStreaming]: flush the buffer when streaming completes
flushEffect_keepsIncomplete(h, newIsStreaming) ==
  IF ~newIsStreaming /\ h.bufferRef # <<>> /\ isMarkdownComplete(h.bufferRef)
  THEN [h EXCEPT !.lines = Append(@, [id |-> h.lineIdCounterRef,
                                      content |-> h.bufferRef]),
                 !.lineIdCounterRef = @ + 1,
                 !.bufferRef = <<>>,
                 !.isBuffering = FALSE]
  ELSE h

flushEffect(h, newIsStreaming) ==
  IF ~newIsStreaming /\ h.bufferRef # <<>>
  THEN [h EXCEPT !.lines = Append(@, [id |-> h.lineIdCounterRef,
                                      content |-> h.bufferRef]),
                 !.lineIdCounterRef = @ + 1,
                 !.bufferRef = <<>>,
                 !.isBuffering = FALSE]
  ELSE h

\* the effect on [content]: reset when content is cleared
resetEffect(h, newContent) ==
  IF newContent = <<>>
  THEN [h EXCEPT !.lines = <<>>, !.bufferRef = <<>>, !.isBuffering = FALSE,
                 !.processedLengthRef = 0, !.lineIdCounterRef = 0]
  ELSE h

\* a render with new props: the effects whose dependencies changed run in
\* the order of their declaration
rerender(h, oldContent, oldIsStreaming, newContent, newIsStreaming) ==
  LET afterContent == IF newContent # oldContent
                      THEN contentEffect(h, newContent) ELSE h
      afterFlush == IF newIsStreaming # oldIsStreaming
                    THEN flushEffect(afterContent, newIsStreaming)
                    ELSE afterContent
  IN IF newContent # oldContent THEN resetEffect(afterFlush, newContent)
     ELSE afterFlush

BufferInit ==
  /\ contentProp = <<>>
  /\ isStreaming = TRUE
  /\ lines = <<>>
  /\ isBuffering = FALSE
  /\ bufferRef = <<>>
  /\ previousContentRef = <<>>
  /\ processedLengthRef = 0
  /\ lineIdCounterRef = 0
  /\ deltasReceived = 0

BufferReset ==
  /\ contentProp' = <<>>
  /\ isStreaming' = TRUE
  /\ lines' = <<>>
  /\ isBuffering' = FALSE
  /\ bufferRef' = <<>>
  /\ previousContentRef' = <<>>
  /\ processedLengthRef' = 0
  /\ lineIdCounterRef' = 0
  /\ deltasReceived' = 0

\* ------------------------------------------------- document subscriptions
\* { ...doc, ...updates }
Spread(doc, updates) ==
  [f \in DOMAIN doc \cup DOMAIN updates |->
     IF f \in DOMAIN updates THEN updates[f] ELSE doc[f]]

\* documents.map((doc) => doc.id === documentId ? { ...doc, ...updates } : doc)
mapUpdate(documents, documentId, updates) ==
  [i \in 1..Len(documents) |->
     IF documents[i].id = documentId THEN Spread(documents[i], updates)
     ELSE documents[i]]

\* the store's updateDocument
updateDocument(dbc, conversationId, documentId, updates) ==
  [c \in DOMAIN dbc \cup {conversationId} |->
     IF c = conversationId
     THEN mapUpdate(IF conversationId \in DOMAIN dbc
                    THEN dbc[conversationId] ELSE <<>>, documentId, updates)
     ELSE dbc[c]]

\* the documents selector of the composer
documentsOf(dbc, conversationId) ==
  IF conversationId # null /\ conversationId \in DOMAIN dbc
  THEN dbc[conversationId] ELSE <<>>

\* the composer's streams as one record
Streams == [ref |-> documentStreamsRef, sources |-> eventSources]

\* ensureStream(doc) in a render whose conversationId is conversationId
ensureStream_withoutLookup(st, doc, conversationId) ==
  IF "sse_url" \notin DOMAIN doc \/ doc.status # "processing"
  THEN st
  ELSE LET es == Len(st.sources) + 1
       IN [ref |-> [d \in DOMAIN st.ref \cup {doc.id} |->
                      IF d = doc.id THEN es ELSE st.ref[d]],
           sources |-> Append(st.sources,
                              [doc |-> doc, conversationId |-> conversationId,
                               open |-> TRUE])]

ensureStream(st, doc, conversationId) ==
  IF \/ "sse_url" \notin DOMAIN doc
     \/ doc.status # "processing"
     \/ doc.id \in DOMAIN st.ref
  THEN st
  ELSE LET es == Len(st.sources) + 1
       IN [ref |-> [d \in DOMAIN st.ref \cup {doc.id} |->
                      IF d = doc.id THEN es ELSE st.ref[d]],
           sources |-> Append(st.sources,
                              [doc |-> doc, conversationId |-> conversationId,
                               open |-> TRUE])]

\* documents.forEach(ensureStream)
RECURSIVE ensureStreams(_, _, _)
ensureStreams(st, documents, conversationId) ==
  IF documents = <<>> THEN st
  ELSE ensureStreams(ensureStream(st, Head(documents), conversationId),
                     Tail(documents), conversationId)

\* es.close(); documentStreamsRef.current.delete(doc.id)
closeStream(st, es) ==
  [ref |-> [d \in DOMAIN st.ref \ {st.sources[es].doc.id} |-> st.ref[d]],
   sources |-> [st.sources EXCEPT ![es].open = FALSE]]

\* the cleanup of the effect on [conversationId]: close every stream of the
\* map and clear the map
closeAllStreams(st) ==
  [ref |-> EmptyRecord,
   sources |-> [es \in 1..Len(st.sources) |->
                  IF \E d \in DOMAIN st.ref : st.ref[d] = es
                  THEN [st.sources[es] EXCEPT !.open = FALSE]
                  ELSE st.sources[es]]]

\* payload.chunk_count ?? payload.chunkCount ?? doc.chunkCount, doc being the
\* document the handler closes over
countOr(payload, doc) ==
  IF payload.chunk_count # NoCount THEN payload.chunk_count ELSE doc.chunkCount

\* the updates es.onmessage passes to updateDocument; an empty record when it
\* does not call it
storeUpdates(payload, doc) ==
  CASE payload.type = "status" ->
         [status |-> payload.status, chunkCount |-> countOr(payload, doc)]
    [] payload.type = "persisted" ->
         [status |-> "ready", chunkCount |-> countOr(payload, doc)]
    [] payload.type = "failed" ->
         [status |-> "failed", errorMessage |-> payload.error]
    [] payload.type = "chunking_done" /\ payload.chunk_count # NoCount ->
         [chunkCount |-> payload.chunk_count]
    [] OTHER -> EmptyRecord

\* the updates es.onmessage passes to updatePending
pendingUpdates(payload, doc) ==
  IF payload.type = "embedding_done" THEN [status |-> "processing"]
  ELSE storeUpdates(payload, doc)

\* es.onmessage closes the stream
closesStream_onlyOnStatus(payload) ==
  payload.type = "status" /\ payload.status \in {"ready", "failed"}

closesStream(payload) ==
  \/ payload.type \in {"persisted", "failed"}
  \/ payload.type = "status" /\ payload.status \in {"ready", "failed"}

ComposerInit ==
  /\ composerConversationId = null
  /\ composerMounted = TRUE
  /\ pendingDocuments = <<>>
  /\ documentStreamsRef = EmptyRecord
  /\ eventSources = <<>>
  /\ reported = [d \in DocumentIds |-> 0]
  /\ terminated = {}
  /\ input = <<>>
  /\ isCreatingConversation = FALSE
  /\ createCallbacks = {}
  /\ titleRequests = <<>>

ComposerReset ==
  /\ composerConversationId' = null
  /\ composerMounted' = TRUE
  /\ pendingDocuments' = <<>>
  /\ documentStreamsRef' = EmptyRecord
  /\ eventSources' = <<>>
  /\ reported' = [d \in DocumentIds |-> 0]
  /\ terminated' = {}
  /\ input' = <<>>
  /\ isCreatingConversation' = FALSE
  /\ createCallbacks' = {}
  /\ titleRequests' = <<>>

\* ------------------------------------------------------ the health check
maxRetries == 30

\* Math.pow(base, k) for the exponents of the backoff; a double holds these
\* powers exactly, and a power above Saturation only ever counts as being
\* above it
Saturation == 1000000
RECURSIVE pow(_, _)
pow(base, k) ==
  IF k = 0 THEN 1
  ELSE LET p == pow(base, k - 1)
       IN IF p > Saturation THEN p ELSE base * p

\* Math.min(1000 * Math.pow(2, retryCount), 10000)
backoffDelay_uncapped(count) == 1000 * pow(2, count)

backoffDelay(count) ==
  IF 1000 * pow(2, count) < 10000 THEN 1000 * pow(2, count) ELSE 10000

HealthInit ==
  /\ hasChecked = FALSE
  /\ healthCheck = "idle"
  /\ retryCount = 0
  /\ attempts = 0
  /\ lastFailure = "none"
  /\ delay = 0

HealthReset ==
  /\ hasChecked' = FALSE
  /\ healthCheck' = "idle"
  /\ retryCount' = 0
  /\ attempts' = 0
  /\ lastFailure' = "none"
  /\ delay' = 0

ViewInit == ParserInit /\ BufferInit /\ ComposerInit /\ HealthInit
ViewReset == ParserReset /\ BufferReset /\ ComposerReset /\ HealthReset

\* thinkingSinceStart of a conversation no update has touched since its start
NoThinkingYet == [supplied |-> <<>>, reclassifiedSince |-> FALSE]

Init ==
  /\ messagesByConversation = EmptyRecord
  /\ streamingByConversation = EmptyRecord
  /\ isConnected = FALSE
  /\ backendReady = FALSE
  /\ wsRef = NoSocket
  /\ isConnectingRef = FALSE
  /\ pendingRequestsRef = {}
  /\ connectionLostHandledRef = FALSE
  /\ readyState = [s \in SockIds |-> "UNBORN"]
  /\ reconnectTimers = {}
  /\ stopTimers = 0
  /\ mounted = TRUE
  /\ tokensSinceStart = [c \in Conversations |-> <<>>]
  /\ reclassified = {}
  /\ inFlight = [c \in Conversations |-> 0]
  /\ stoppedOn = [s \in SockIds |-> {}]
  /\ documentsByConversation = EmptyRecord
  /\ thinkingMode = TRUE
  /\ selectedModel = DefaultModel
  /\ clientId = null
  /\ activeConversationId = null
  /\ isSettingsOpen = FALSE
  /\ conversationsCache = NotLoaded
  /\ pendingMutations = {}
  /\ conversationData = EmptyRecord
  /\ openStreams = {}
  /\ thinkingSinceStart = [c \in Conversations |-> NoThinkingYet]
  /\ ViewInit

\* --------------------------------------------------- connection lifecycle
\* The three refs as connect() leaves them when called with the closure's
\* backendReady and the refs (ws, connecting, rs).
connect(ready, ws, connecting, rs) ==
  IF ConnectProceeds(ready, ws, connecting, rs)
  THEN /\ isConnectingRef' = TRUE
       /\ readyState' = [rs EXCEPT ![NewSocket] = "CONNECTING"]
       /\ wsRef' = NewSocket
  ELSE /\ isConnectingRef' = connecting
       /\ readyState' = rs
       /\ wsRef' = ws

\* the model can only run a connect() that has a socket id to hand out
CanConnect(ready, ws, connecting, rs) ==
  ConnectProceeds(ready, ws, connecting, rs) => FreeSockets # {}

\* The health check succeeds: setBackendReady(true), the component re-renders,
\* connectRef is refreshed and the "connect when backend becomes ready" effect
\* runs.  backendReady never turns false again (the health check returns after
\* its first success), so connectRef.current always holds the closure made with
\* the store's backendReady.
BackendReady ==
  /\ mounted
  /\ ~backendReady
  /\ backendReady' = TRUE
  /\ IF wsRef = NoSocket
     THEN /\ CanConnect(TRUE, wsRef, isConnectingRef, readyState)
          /\ connect(TRUE, wsRef, isConnectingRef, readyState)
     ELSE UNCHANGED <<isConnectingRef, readyState, wsRef>>
  /\ UNCHANGED <<storeVars, isConnected, pendingRequestsRef,
                 connectionLostHandledRef, reconnectTimers, stopTimers,
                 mounted, tokensSinceStart, reclassified, inFlight, stoppedOn,
                 appVars, openStreams, thinkingSinceStart>>

\* ws.onopen of socket s
OnOpen(s) ==
  /\ readyState[s] = "CONNECTING"
  /\ readyState' = [readyState EXCEPT ![s] = "OPEN"]
  /\ isConnectingRef' = FALSE
  /\ isConnected' = TRUE
  /\ connectionLostHandledRef' = FALSE
  /\ UNCHANGED <<storeVars, backendReady, wsRef, pendingRequestsRef,
                 reconnectTimers, stopTimers, mounted, tokensSinceStart,
                 reclassified, inFlight, stoppedOn,
                 appVars, openStreams, thinkingSinceStart>>

\* ------------------------------------------------------------ ws.onmessage
\* every branch of the handler is one action; all need socket s to be OPEN
\* (the browser delivers message events only in readyState OPEN)
Receives(s) == readyState[s] = "OPEN"

ManagerUnchanged ==
  UNCHANGED <<isConnected, backendReady, wsRef, isConnectingRef, readyState,
              reconnectTimers, stopTimers, mounted, stoppedOn, appVars>>

\* a message without conversation_id, or of an unknown type, is dropped
OnDropped(s) ==
  /\ Receives(s)
  /\ ManagerUnchanged
  /\ UNCHANGED <<storeVars, pendingRequestsRef, connectionLostHandledRef,
                 tokensSinceStart, reclassified, inFlight, openStreams,
                 thinkingSinceStart>>

OnStart(s, c) ==
  /\ Receives(s)
  /\ connectionLostHandledRef' = FALSE
  /\ streamingByConversation' = startStreaming(streamingByConversation, c)
  /\ tokensSinceStart' = [tokensSinceStart EXCEPT ![c] = <<>>]
  /\ reclassified' = reclassified \ {c}
  /\ openStreams' = openStreams \cup {c}
  /\ thinkingSinceStart' = [thinkingSinceStart EXCEPT ![c] = NoThinkingYet]
  /\ ManagerUnchanged
  /\ UNCHANGED <<messagesByConversation, pendingRequestsRef, inFlight>>

OnThinking(s, c, content) ==
  /\ Receives(s)
  /\ IF c \notin DOMAIN streamingByConversation
     THEN /\ UNCHANGED <<streamingByConversation, thinkingSinceStart>>
     ELSE /\ streamingByConversation' =
                updateStreamingMessage(streamingByConversation, c, <<>>, content)
          /\ thinkingSinceStart' =
                [thinkingSinceStart EXCEPT
                   ![c] = [supplied |-> content, reclassifiedSince |-> FALSE]]
  /\ ManagerUnchanged
  /\ UNCHANGED <<messagesByConversation, pendingRequestsRef,
                 connectionLostHandledRef, tokensSinceStart, reclassified,
                 inFlight, openStreams>>

\* mutant: the token update passes '' instead of omitting the thinking
OnToken_clearsThinking(s, c, content) ==
  /\ Receives(s)
  /\ IF c \notin DOMAIN streamingByConversation
     THEN /\ UNCHANGED <<streamingByConversation, tokensSinceStart>>
     ELSE /\ streamingByConversation' =
                updateStreamingMessage(streamingByConversation, c, content, <<>>)
          /\ tokensSinceStart' =
                [tokensSinceStart EXCEPT ![c] = @ \o content]
  /\ ManagerUnchanged
  /\ UNCHANGED <<messagesByConversation, pendingRequestsRef,
                 connectionLostHandledRef, reclassified, inFlight, openStreams,
                 thinkingSinceStart>>

OnToken(s, c, content) ==
  /\ Receives(s)
  /\ IF c \notin DOMAIN streamingByConversation
     THEN /\ UNCHANGED <<streamingByConversation, tokensSinceStart>>
     ELSE /\ streamingByConversation' =
                updateStreamingMessage(streamingByConversation, c, content, Absent)
          /\ tokensSinceStart' =
                [tokensSinceStart EXCEPT ![c] = @ \o content]
  /\ ManagerUnchanged
  /\ UNCHANGED <<messagesByConversation, pendingRequestsRef,
                 connectionLostHandledRef, reclassified, inFlight, openStreams,
                 thinkingSinceStart>>

OnReclassify(s, c) ==
  /\ Receives(s)
  /\ IF c \notin DOMAIN streamingByConversation
     THEN /\ UNCHANGED <<streamingByConversation, reclassified,
                          thinkingSinceStart>>
     ELSE /\ streamingByConversation' =
                reclassifyThinkingAsResponse(streamingByConversation, c)
          /\ reclassified' = reclassified \cup {c}
          /\ thinkingSinceStart' =
                [thinkingSinceStart EXCEPT ![c].reclassifiedSince = TRUE]
  /\ ManagerUnchanged
  /\ UNCHANGED <<messagesByConversation, pendingRequestsRef,
                 connectionLostHandledRef, tokensSinceStart, inFlight,
                 openStreams>>

\* mutant: a complete event for a conversation without streaming entry
\* appends an empty message
OnComplete_appendsAnyway(s, c) ==
  /\ Receives(s)
  /\ messagesByConversation' =
        addMessage(messagesByConversation, c,
                   IF c \in DOMAIN streamingByConversation
                   THEN AssistantMessage(streamingByConversation[c].content,
                                         streamingByConversation[c].thinking)
                   ELSE [role |-> "assistant", content |-> <<>>])
  /\ streamingByConversation' = completeStreaming(streamingByConversation, c)
  /\ openStreams' = openStreams \ {c}
  /\ pendingRequestsRef' = pendingRequestsRef \ {c}
  /\ tokensSinceStart' =
        Restrict(tokensSinceStart, streamingByConversation', <<>>)
  /\ reclassified' = reclassified \cap DOMAIN streamingByConversation'
  /\ thinkingSinceStart' =
        Restrict(thinkingSinceStart, streamingByConversation', NoThinkingYet)
  /\ inFlight' = [inFlight EXCEPT ![c] = 0]
  /\ ManagerUnchanged
  /\ UNCHANGED connectionLostHandledRef

OnComplete(s, c) ==
  /\ Receives(s)
  /\ IF c \notin DOMAIN streamingByConversation
     THEN /\ UNCHANGED <<storeVars, openStreams>>
     ELSE /\ messagesByConversation' =
                addMessage(messagesByConversation, c,
                           AssistantMessage(streamingByConversation[c].content,
                                            streamingByConversation[c].thinking))
          /\ streamingByConversation' =
                completeStreaming(streamingByConversation, c)
          /\ openStreams' = openStreams \ {c}
  /\ pendingRequestsRef' = pendingRequestsRef \ {c}
  /\ tokensSinceStart' =
        Restrict(tokensSinceStart, streamingByConversation', <<>>)
  /\ reclassified' = reclassified \cap DOMAIN streamingByConversation'
  /\ thinkingSinceStart' =
        Restrict(thinkingSinceStart, streamingByConversation', NoThinkingYet)
  /\ inFlight' = [inFlight EXCEPT ![c] = 0]
  /\ ManagerUnchanged
  /\ UNCHANGED connectionLostHandledRef

OnError(s, c, message) ==
  /\ Receives(s)
  /\ streamingByConversation' =
        IF isConversationStreaming(streamingByConversation, c)
        THEN completeStreaming(streamingByConversation, c)
        ELSE streamingByConversation
  /\ openStreams' =
        IF isConversationStreaming(streamingByConversation, c)
        THEN openStreams \ {c}
        ELSE openStreams
  /\ messagesByConversation' =
        addMessage(messagesByConversation, c,
                   [role |-> "assistant",
                    content |-> ErrorPrefix \o TemplateString(message)])
  /\ pendingRequestsRef' = pendingRequestsRef \ {c}
  /\ tokensSinceStart' =
        Restrict(tokensSinceStart, streamingByConversation', <<>>)
  /\ reclassified' = reclassified \cap DOMAIN streamingByConversation'
  /\ thinkingSinceStart' =
        Restrict(thinkingSinceStart, streamingByConversation', NoThinkingYet)
  /\ inFlight' = [inFlight EXCEPT ![c] = 0]
  /\ ManagerUnchanged
  /\ UNCHANGED connectionLostHandledRef

\* -------------------------------------------------- ws.onclose / ws.onerror
\* mutant: the partial content is not kept, only the marker
HandleConnectionLost_dropsPartial(mbc, sbc, todo) ==
  [messages |->
     [c \in DOMAIN mbc \cup todo |->
        IF c \in todo
        THEN Append(getMessages(mbc, c),
                    [role |-> "assistant", content |-> ConnectionLostOnly])
        ELSE mbc[c]],
   streaming |-> [c \in DOMAIN sbc \ todo |-> sbc[c]]]

\* the loop of onclose over the streaming conversations `todo`
RECURSIVE HandleConnectionLost(_, _, _)
HandleConnectionLost(mbc, sbc, todo) ==
  IF todo = {}
  THEN [messages |-> mbc, streaming |-> sbc]
  ELSE LET convId == CHOOSE x \in todo : TRUE
           streamingMsg == sbc[convId]
           message ==
             IF streamingMsg.content # <<>>
             THEN AssistantMessage(streamingMsg.content \o ConnectionLostSuffix,
                                   streamingMsg.thinking)
             ELSE [role |-> "assistant", content |-> ConnectionLostOnly]
       IN HandleConnectionLost(addMessage(mbc, convId, message),
                               completeStreaming(sbc, convId),
                               todo \ {convId})

\* Socket s reaches CLOSED and its close event is dispatched; when the
\* connection failed, the error event is dispatched first in the same task
\* (onerror only resets isConnectingRef, which onclose resets as well).
OnClose(s, failed) ==
  /\ readyState[s] \in {"CONNECTING", "OPEN", "CLOSING"}
  /\ readyState' = [readyState EXCEPT ![s] = "CLOSED"]
  /\ isConnectingRef' = FALSE
  /\ isConnected' = FALSE
  /\ IF ~connectionLostHandledRef
     THEN LET streamingConversations ==
                getStreamingConversations(streamingByConversation)
              after == HandleConnectionLost(messagesByConversation,
                                            streamingByConversation,
                                            streamingConversations)
          IN /\ connectionLostHandledRef' = TRUE
             /\ messagesByConversation' = after.messages
             /\ streamingByConversation' = after.streaming
             /\ pendingRequestsRef' = {}
             /\ openStreams' = openStreams \ streamingConversations
     ELSE UNCHANGED <<connectionLostHandledRef, storeVars, pendingRequestsRef,
                      openStreams>>
  /\ reconnectTimers' = reconnectTimers \cup {s}
  /\ tokensSinceStart' =
        Restrict(tokensSinceStart, streamingByConversation', <<>>)
  /\ reclassified' = reclassified \cap DOMAIN streamingByConversation'
  /\ inFlight' = [c \in Conversations |-> 0]
  /\ thinkingSinceStart' =
        Restrict(thinkingSinceStart, streamingByConversation', NoThinkingYet)
  /\ stoppedOn' = [stoppedOn EXCEPT ![s] = {}]
  /\ UNCHANGED <<backendReady, wsRef, stopTimers, mounted, appVars>>

\* mutant: the guard against superseded sockets is inverted
ReconnectTimer_invertedGuard(s) ==
  /\ s \in reconnectTimers
  /\ reconnectTimers' = reconnectTimers \ {s}
  /\ IF wsRef # s
     THEN /\ CanConnect(backendReady, wsRef, isConnectingRef, readyState)
          /\ connect(backendReady, wsRef, isConnectingRef, readyState)
     ELSE /\ UNCHANGED <<isConnectingRef, readyState, wsRef>>
  /\ UNCHANGED <<storeVars, isConnected, backendReady, pendingRequestsRef,
                 connectionLostHandledRef, stopTimers, mounted,
                 tokensSinceStart, reclassified, inFlight, stoppedOn,
                 appVars, openStreams, thinkingSinceStart>>

\* the 3000 ms timer set by the onclose of socket s fires
ReconnectTimer(s) ==
  /\ s \in reconnectTimers
  /\ reconnectTimers' = reconnectTimers \ {s}
  /\ IF wsRef = s
     THEN /\ CanConnect(backendReady, wsRef, isConnectingRef, readyState)
          /\ connect(backendReady, wsRef, isConnectingRef, readyState)
     ELSE /\ UNCHANGED <<isConnectingRef, readyState, wsRef>>
  /\ UNCHANGED <<storeVars, isConnected, backendReady, pendingRequestsRef,
                 connectionLostHandledRef, stopTimers, mounted,
                 tokensSinceStart, reclassified, inFlight, stoppedOn,
                 appVars, openStreams, thinkingSinceStart>>

\* a 200 ms timer set by stopStreaming fires
StopTimer ==
  /\ stopTimers > 0
  /\ stopTimers' = stopTimers - 1
  /\ CanConnect(backendReady, wsRef, isConnectingRef, readyState)
  /\ connect(backendReady, wsRef, isConnectingRef, readyState)
  /\ UNCHANGED <<storeVars, isConnected, backendReady, pendingRequestsRef,
                 connectionLostHandledRef, reconnectTimers, mounted,
                 tokensSinceStart, reclassified, inFlight, stoppedOn,
                 appVars, openStreams, thinkingSinceStart>>

\* ---------------------------------------------------------- the manager's API
\* sendMessage(params) for conversation c
SendMessage(c) ==
  /\ mounted
  /\ IF \/ wsRef = NoSocket
        \/ readyState[wsRef] # "OPEN"
        \/ isConversationStreaming(streamingByConversation, c)
     THEN /\ UNCHANGED <<pendingRequestsRef, connectionLostHandledRef, inFlight>>
     ELSE /\ pendingRequestsRef' = pendingRequestsRef \cup {c}
          /\ connectionLostHandledRef' = FALSE
          /\ inFlight' = [inFlight EXCEPT ![c] = @ + 1]
  /\ ManagerUnchanged
  /\ UNCHANGED <<storeVars, tokensSinceStart, reclassified, openStreams,
                 thinkingSinceStart>>

StopStreaming(c) ==
  /\ mounted
  /\ IF ~isConversationStreaming(streamingByConversation, c) \/ wsRef = NoSocket
     THEN UNCHANGED <<storeVars, pendingRequestsRef, connectionLostHandledRef,
                      readyState, stopTimers, inFlight, stoppedOn, openStreams>>
     ELSE LET streamingMsg == streamingByConversation[c]
          IN /\ connectionLostHandledRef' = TRUE
             /\ IF streamingMsg.content # <<>>
                THEN messagesByConversation' =
                          addMessage(messagesByConversation, c,
                                     AssistantMessage(streamingMsg.content,
                                                      streamingMsg.thinking))
                ELSE UNCHANGED messagesByConversation
             /\ streamingByConversation' =
                  completeStreaming(streamingByConversation, c)
             /\ openStreams' = openStreams \ {c}
             /\ pendingRequestsRef' = pendingRequestsRef \ {c}
             /\ readyState' = CloseCall(readyState, wsRef)
             /\ stopTimers' = stopTimers + 1
             /\ inFlight' = [inFlight EXCEPT ![c] = 0]
             /\ stoppedOn' = IF readyState'[wsRef] = "CLOSING"
                             THEN [stoppedOn EXCEPT ![wsRef] = @ \cup {c}]
                             ELSE stoppedOn
  /\ tokensSinceStart' =
        Restrict(tokensSinceStart, streamingByConversation', <<>>)
  /\ reclassified' = reclassified \cap DOMAIN streamingByConversation'
  /\ thinkingSinceStart' =
        Restrict(thinkingSinceStart, streamingByConversation', NoThinkingYet)
  /\ UNCHANGED <<isConnected, backendReady, wsRef, isConnectingRef,
                 reconnectTimers, mounted, appVars>>

\* the cleanup of the unmount effect
Teardown ==
  /\ mounted
  /\ mounted' = FALSE
  /\ IF wsRef # NoSocket
     THEN /\ readyState' = CloseCall(readyState, wsRef)
          /\ wsRef' = NoSocket
     ELSE UNCHANGED <<readyState, wsRef>>
  /\ UNCHANGED <<storeVars, isConnected, backendReady, isConnectingRef,
                 pendingRequestsRef, connectionLostHandledRef, reconnectTimers,
                 stopTimers, tokensSinceStart, reclassified, inFlight,
                 stoppedOn, appVars, openStreams, thinkingSinceStart>>

\* ------------------------------------------- store actions called directly
StartStreaming(c) ==
  /\ streamingByConversation' = startStreaming(streamingByConversation, c)
  /\ openStreams' = openStreams \cup {c}
  /\ tokensSinceStart' = [tokensSinceStart EXCEPT ![c] = <<>>]
  /\ reclassified' = reclassified \ {c}
  /\ thinkingSinceStart' = [thinkingSinceStart EXCEPT ![c] = NoThinkingYet]
  /\ UNCHANGED <<messagesByConversation, connectionVars, appVars>>

\* thinking = Absent is a call without the third argument
UpdateStreamingMessage(c, tokenContent, thinking) ==
  /\ streamingByConversation' =
        updateStreamingMessage(streamingByConversation, c, tokenContent, thinking)
  /\ IF c \in DOMAIN streamingByConversation
     THEN /\ tokensSinceStart' =
                [tokensSinceStart EXCEPT ![c] = @ \o tokenContent]
          /\ thinkingSinceStart' =
                IF thinking = Absent
                THEN thinkingSinceStart
                ELSE [thinkingSinceStart EXCEPT
                        ![c] = [supplied |-> thinking,
                                reclassifiedSince |-> FALSE]]
     ELSE UNCHANGED <<tokensSinceStart, thinkingSinceStart>>
  /\ UNCHANGED <<messagesByConversation, reclassified, openStreams,
                 connectionVars, appVars>>

CompleteStreaming(c) ==
  /\ streamingByConversation' = completeStreaming(streamingByConversation, c)
  /\ openStreams' = openStreams \ {c}
  /\ tokensSinceStart' =
        Restrict(tokensSinceStart, streamingByConversation', <<>>)
  /\ reclassified' = reclassified \cap DOMAIN streamingByConversation'
  /\ thinkingSinceStart' =
        Restrict(thinkingSinceStart, streamingByConversation', NoThinkingYet)
  /\ UNCHANGED <<messagesByConversation, connectionVars, appVars>>

AddMessage(c, message) ==
  /\ messagesByConversation' = addMessage(messagesByConversation, c, message)
  /\ UNCHANGED <<streamingByConversation, streamHistory, connectionVars,
                 appVars>>

ClearMessages(c) ==
  LET cleared == clearMessages(messagesByConversation,
                               streamingByConversation, c)
  IN /\ messagesByConversation' = cleared.messages
     /\ streamingByConversation' = cleared.streaming
     /\ openStreams' = openStreams \ {c}
     /\ tokensSinceStart' =
           Restrict(tokensSinceStart, streamingByConversation', <<>>)
     /\ reclassified' = reclassified \cap DOMAIN streamingByConversation'
     /\ thinkingSinceStart' =
           Restrict(thinkingSinceStart, streamingByConversation', NoThinkingYet)
     /\ UNCHANGED <<connectionVars, appVars>>

\* mutant: switching the active conversation drops the streams of the others
SetActiveConversation_dropsBackground(conversationId) ==
  /\ activeConversationId' = conversationId
  /\ streamingByConversation' =
        [c \in DOMAIN streamingByConversation \cap {conversationId} |->
           streamingByConversation[c]]
  /\ UNCHANGED <<messagesByConversation, streamHistory, connectionVars,
                 documentsByConversation, thinkingMode, selectedModel,
                 clientId, isSettingsOpen, queryVars, viewVars>>

\* conversationId is a conversation id or null
SetActiveConversation(conversationId) ==
  /\ activeConversationId' = conversationId
  /\ UNCHANGED <<storeVars, streamHistory, connectionVars,
                 documentsByConversation, thinkingMode, selectedModel,
                 clientId, isSettingsOpen, queryVars, viewVars>>

SetThinkingMode(enabled) ==
  /\ thinkingMode' = enabled
  /\ UNCHANGED <<storeVars, streamHistory, connectionVars,
                 documentsByConversation, selectedModel, clientId,
                 activeConversationId, isSettingsOpen, queryVars, viewVars>>

SetSelectedModel(model) ==
  /\ selectedModel' = model
  /\ UNCHANGED <<storeVars, streamHistory, connectionVars,
                 documentsByConversation, thinkingMode, clientId,
                 activeConversationId, isSettingsOpen, queryVars, viewVars>>

SetClientId(id) ==
  /\ clientId' = id
  /\ UNCHANGED <<storeVars, streamHistory, connectionVars,
                 documentsByConversation, thinkingMode, selectedModel,
                 activeConversationId, isSettingsOpen, queryVars, viewVars>>

OpenSettings ==
  /\ isSettingsOpen' = TRUE
  /\ UNCHANGED <<storeVars, streamHistory, connectionVars,
                 documentsByConversation, thinkingMode, selectedModel,
                 clientId, activeConversationId, queryVars, viewVars>>

CloseSettings ==
  /\ isSettingsOpen' = FALSE
  /\ UNCHANGED <<storeVars, streamHistory, connectionVars,
                 documentsByConversation, thinkingMode, selectedModel,
                 clientId, activeConversationId, queryVars, viewVars>>

AddDocument(c, document) ==
  /\ documentsByConversation' = addDocument(documentsByConversation, c, document)
  /\ UNCHANGED <<storeVars, streamHistory, connectionVars, thinkingMode,
                 selectedModel, clientId, activeConversationId, isSettingsOpen,
                 queryVars, viewVars>>

\* The page is reloaded: a new store is created with its initial state and the
\* persist middleware merges the stored payload into it; the manager, the
\* socket, the timers and the query cache of the old page are gone.
Reload ==
  LET rehydrated == merge(partialize, InitialState)
  IN /\ messagesByConversation' = rehydrated.messagesByConversation
     /\ streamingByConversation' = rehydrated.streamingByConversation
     /\ documentsByConversation' = rehydrated.documentsByConversation
     /\ isConnected' = rehydrated.isConnected
     /\ backendReady' = rehydrated.backendReady
     /\ thinkingMode' = rehydrated.thinkingMode
     /\ selectedModel' = rehydrated.selectedModel
     /\ clientId' = rehydrated.clientId
     /\ activeConversationId' = rehydrated.activeConversationId
     /\ isSettingsOpen' = rehydrated.isSettingsOpen
     /\ wsRef' = NoSocket
     /\ isConnectingRef' = FALSE
     /\ pendingRequestsRef' = {}
     /\ connectionLostHandledRef' = FALSE
     /\ readyState' = [s \in SockIds |-> "UNBORN"]
     /\ reconnectTimers' = {}
     /\ stopTimers' = 0
     /\ mounted' = TRUE
     /\ tokensSinceStart' = [c \in Conversations |-> <<>>]
     /\ reclassified' = {}
     /\ inFlight' = [c \in Conversations |-> 0]
     /\ stoppedOn' = [s \in SockIds |-> {}]
     /\ conversationsCache' = NotLoaded
     /\ pendingMutations' = {}
     /\ conversationData' = EmptyRecord
     /\ openStreams' = {}
     /\ thinkingSinceStart' = [c \in Conversations |-> NoThinkingYet]
     /\ ViewReset

\* the fetch of conversation c resolves with serverMessages and the effect of
\* ChatPage runs
Reconcile(c, serverMessages) ==
  /\ conversationData' =
        [d \in DOMAIN conversationData \cup {c} |->
           IF d = c THEN serverMessages ELSE conversationData[d]]
  /\ messagesByConversation' =
        reconcile(messagesByConversation, streamingByConversation, c,
                  serverMessages)
  /\ UNCHANGED <<streamingByConversation, streamHistory, connectionVars,
                 documentsByConversation, thinkingMode, selectedModel,
                 clientId, activeConversationId, isSettingsOpen,
                 conversationsCache, pendingMutations, viewVars>>

\* Reconciliation: conversation A gets messages from the composer and from
\* completed streams, fetches of A resolve with any message list at any
\* moment, also while A is streaming.
WithinReconcile ==
  /\ Len(getMessages(messagesByConversation, "A")) <= MaxList
  /\ \A c \in DOMAIN streamingByConversation :
       Len(streamingByConversation[c].content) <= 1

NextReconcile ==
  \/ BackendReady
  \/ \E s \in SockIds : OnOpen(s)
  \/ \E s \in SockIds : OnStart(s, "A")
  \/ \E s \in SockIds : OnToken(s, "A", <<"x">>) /\ WithinReconcile'
  \/ \E s \in SockIds : OnComplete(s, "A") /\ WithinReconcile'
  \/ \E m \in LocalMessages : AddMessage("A", m) /\ WithinReconcile'
  \/ \E sm \in ListsOver(ServerMessages, MaxList) : Reconcile("A", sm)

SpecReconcile == Init /\ [][NextReconcile]_vars

\* Persistence: preferences, messages, documents and transient state change
\* in any order and the page is reloaded at any moment.
WithinPersist ==
  /\ Within
  /\ \A c \in DOMAIN documentsByConversation :
       Len(documentsByConversation[c]) <= MaxDocuments

NextPersist ==
  \/ \E c \in Conversations : StartStreaming(c)
  \/ \E c \in Conversations :
        UpdateStreamingMessage(c, <<"x">>, Absent) /\ WithinPersist'
  \/ \E c \in Conversations : AddMessage(c, UserMessage) /\ WithinPersist'
  \/ \E d \in Documents : AddDocument("A", d) /\ WithinPersist'
  \/ \E id \in Conversations \cup {null} : SetActiveConversation(id)
  \/ \E b \in BOOLEAN : SetThinkingMode(b)
  \/ \E m \in Models : SetSelectedModel(m)
  \/ \E id \in ClientIds : SetClientId(id)
  \/ OpenSettings
  \/ CloseSettings
  \/ Reload

SpecPersist == Init /\ [][NextPersist]_vars

\* The store: its streaming actions called in any order for either
\* conversation.
NextStore ==
  \/ \E c \in Conversations : StartStreaming(c)
  \/ \E c \in Conversations, t \in Tokens, th \in Thinkings \cup {Absent} :
        UpdateStreamingMessage(c, t, th) /\ Within'
  \/ \E c \in Conversations : CompleteStreaming(c)
  \/ \E c \in Conversations : AddMessage(c, UserMessage) /\ Within'
  \/ \E c \in Conversations : ClearMessages(c)

SpecStore == Init /\ [][NextStore]_vars

\* Streaming in the background: the server streams tokens to either
\* conversation while the active conversation is switched at any moment.
NextSwitch ==
  \/ BackendReady
  \/ \E s \in SockIds : OnOpen(s)
  \/ \E s \in SockIds, c \in Conversations : OnStart(s, c)
  \/ \E s \in SockIds, c \in Conversations, t \in Tokens :
        OnToken(s, c, t) /\ Within'
  \/ \E s \in SockIds, c \in Conversations : OnComplete(s, c) /\ Within'
  \/ \E id \in Conversations \cup {null} : SetActiveConversation(id)

SpecSwitch == Init /\ [][NextSwitch]_vars

\* The store under one connection at a time: the server streams any events
\* over the open socket, the network drops the connection, the manager
\* reconnects.
Next ==
  \/ BackendReady
  \/ \E s \in SockIds : OnOpen(s)
  \/ \E s \in SockIds : OnDropped(s)
  \/ \E s \in SockIds, c \in Conversations : OnStart(s, c)
  \/ \E s \in SockIds, c \in Conversations, t \in Thinkings :
        OnThinking(s, c, t) /\ Within'
  \/ \E s \in SockIds, c \in Conversations, t \in Tokens :
        OnToken(s, c, t) /\ Within'
  \/ \E s \in SockIds, c \in Conversations : OnReclassify(s, c)
  \/ \E s \in SockIds, c \in Conversations : OnComplete(s, c) /\ Within'
  \/ \E s \in SockIds, c \in Conversations, m \in ErrorTexts :
        OnError(s, c, m) /\ Within'
  \/ \E s \in SockIds, failed \in BOOLEAN : OnClose(s, failed) /\ Within'
  \/ \E s \in SockIds : ReconnectTimer(s)

Spec == Init /\ [][Next]_vars

\* The connection life cycle: the user stops either conversation and sends
\* to A, timers fire in any order, sockets open and close at any time, the
\* component unmounts; the server starts either conversation and streams "x"
\* tokens to A.
WithinConn ==
  /\ TotalMessages + TotalChars <= ConnMaxStore
  /\ stopTimers <= MaxStopTimers
  /\ \A c \in Conversations : inFlight[c] <= MaxInFlight

NextConn ==
  \/ BackendReady
  \/ \E s \in SockIds : OnOpen(s)
  \/ \E s \in SockIds, c \in Conversations : OnStart(s, c)
  \/ \E s \in SockIds : OnToken(s, "A", <<"x">>) /\ WithinConn'
  \/ \E s \in SockIds : OnComplete(s, "A") /\ WithinConn'
  \/ \E s \in SockIds, failed \in BOOLEAN : OnClose(s, failed) /\ WithinConn'
  \/ \E s \in SockIds : ReconnectTimer(s)
  \/ StopTimer
  \/ SendMessage("A") /\ WithinConn'
  \/ \E c \in Conversations : StopStreaming(c) /\ WithinConn'
  \/ Teardown

SpecConn == Init /\ [][NextConn]_vars

\* Reconnection: sockets open, fail and close, the user stops streams, the
\* component unmounts.  Every started stream has room for the message its end
\* appends, so no close event is held back.  Timers fire once set, and a
\* socket on which close() was called does deliver its close event.
WithinReconnect ==
  /\ TotalMessages + Cardinality(DOMAIN streamingByConversation) <= ConnMaxStore
  /\ stopTimers <= MaxStopTimers

NextReconnect ==
  \/ BackendReady
  \/ \E s \in SockIds : OnOpen(s)
  \/ \E s \in SockIds, c \in Conversations : OnStart(s, c) /\ WithinReconnect'
  \/ \E s \in SockIds, failed \in BOOLEAN : OnClose(s, failed)
  \/ \E s \in SockIds : ReconnectTimer(s)
  \/ StopTimer
  \/ \E c \in Conversations : StopStreaming(c) /\ WithinReconnect'
  \/ Teardown

SpecReconnect ==
  /\ Init
  /\ [][NextReconnect]_vars
  /\ WF_vars(StopTimer)
  /\ \A s \in SockIds : WF_vars(ReconnectTimer(s))
  /\ \A s \in SockIds : WF_vars(readyState[s] = "CLOSING" /\ OnClose(s, FALSE))

\* The protocol on the first connection under a user who may stop a stream:
\* every server event can arrive for either conversation, whether it is
\* streaming or not; stopStreaming can be called for either conversation.
WithinProtocol ==
  /\ TotalMessages + TotalChars <= ConnMaxStore
  /\ stopTimers <= MaxStopTimers

NextProtocol ==
  \/ BackendReady
  \/ \E s \in SockIds : OnOpen(s)
  \/ \E s \in SockIds : OnDropped(s)
  \/ \E s \in SockIds, c \in Conversations : OnStart(s, c)
  \/ \E s \in SockIds, c \in Conversations, t \in Thinkings :
        OnThinking(s, c, t) /\ WithinProtocol'
  \/ \E s \in SockIds, c \in Conversations, t \in Tokens :
        OnToken(s, c, t) /\ WithinProtocol'
  \/ \E s \in SockIds, c \in Conversations : OnReclassify(s, c)
  \/ \E s \in SockIds, c \in Conversations :
        OnComplete(s, c) /\ WithinProtocol'
  \/ \E s \in SockIds, failed \in BOOLEAN :
        OnClose(s, failed) /\ WithinProtocol'
  \/ \E c \in Conversations : StopStreaming(c) /\ WithinProtocol'

SpecProtocol == Init /\ [][NextProtocol]_vars

\* ------------------------------------------- conversations list and cache
\* old.filter((conv) => conv.id !== conversationId)
RECURSIVE Without(_, _)
Without(old, conversationId) ==
  IF old = <<>> THEN <<>>
  ELSE IF Head(old).id # conversationId
       THEN <<Head(old)>> \o Without(Tail(old), conversationId)
       ELSE Without(Tail(old), conversationId)

IdsOf(list) == {list[i].id : i \in 1..Len(list)}

\* ids generateConversationId has not handed out before
FreshIds ==
  Conversations \ (IdsOf(conversationsCache.data)
                   \cup {m.conversationId : m \in pendingMutations}
                   \cup UNION {IdsOf(m.previousConversations.data) :
                                 m \in pendingMutations})

FreeMutationIds == (1..MaxMutations) \ {m.mutationId : m \in pendingMutations}

\* the context an onMutate returns, kept until onError or onSuccess
Mutation(kind, conversationId, previousConversations) ==
  [mutationId |-> CHOOSE n \in FreeMutationIds :
                     \A k \in FreeMutationIds : n <= k,
   kind |-> kind,
   conversationId |-> conversationId,
   previousConversations |-> previousConversations]

CacheUnchanged ==
  UNCHANGED <<storeVars, streamHistory, connectionVars,
              documentsByConversation, thinkingMode, selectedModel, clientId,
              activeConversationId, isSettingsOpen, conversationData,
              viewVars>>

\* queryFn of useConversations resolves with the server's list
FetchConversations(list) ==
  /\ clientId # null
  /\ conversationsCache' = Loaded(list)
  /\ UNCHANGED pendingMutations
  /\ CacheUnchanged

optimisticConversation(conversationId) ==
  [id |-> conversationId, title |-> "New Conversation", message_count |-> 0]

\* useCreateConversation.onMutate
CreateMutate(conversationId) ==
  /\ clientId # null
  /\ FreeMutationIds # {}
  /\ conversationId \in FreshIds
  /\ pendingMutations' = pendingMutations \cup
        {Mutation("create", conversationId, conversationsCache)}
  /\ conversationsCache' =
        Loaded(<<optimisticConversation(conversationId)>>
               \o conversationsCache.data)
  /\ CacheUnchanged

\* onError of both mutations: `if (context?.previousConversations)`; an
\* array, empty or not, is truthy and undefined is not
onError(m) ==
  /\ m \in pendingMutations
  /\ pendingMutations' = pendingMutations \ {m}
  /\ conversationsCache' =
        IF m.previousConversations.loaded THEN m.previousConversations
        ELSE conversationsCache
  /\ CacheUnchanged

\* useCreateConversation.onError
CreateError(m) == m.kind = "create" /\ onError(m)

\* useCreateConversation.onSuccess: the list is invalidated, its refetch
\* resolves as a later FetchConversations
CreateSuccess(m) ==
  /\ m \in pendingMutations
  /\ m.kind = "create"
  /\ pendingMutations' = pendingMutations \ {m}
  /\ UNCHANGED conversationsCache
  /\ CacheUnchanged

\* useDeleteConversation.onMutate
DeleteMutate(conversationId) ==
  /\ clientId # null
  /\ FreeMutationIds # {}
  /\ pendingMutations' = pendingMutations \cup
        {Mutation("delete", conversationId, conversationsCache)}
  /\ conversationsCache' =
        IF ~conversationsCache.loaded THEN conversationsCache
        ELSE Loaded(Without(conversationsCache.data, conversationId))
  /\ CacheUnchanged

\* useDeleteConversation.onError
DeleteError_keepsRemoved(m) ==
  /\ m.kind = "delete"
  /\ m \in pendingMutations
  /\ pendingMutations' = pendingMutations \ {m}
  /\ UNCHANGED conversationsCache
  /\ CacheUnchanged

DeleteError(m) == m.kind = "delete" /\ onError(m)

\* useDeleteConversation.onSuccess: invalidate, clear the conversation's
\* messages, and leave the conversation's page if it is the active one
DeleteSuccess(m) ==
  LET cleared == clearMessages(messagesByConversation,
                               streamingByConversation, m.conversationId)
  IN /\ m \in pendingMutations
     /\ m.kind = "delete"
     /\ pendingMutations' = pendingMutations \ {m}
     /\ messagesByConversation' = cleared.messages
     /\ streamingByConversation' = cleared.streaming
     /\ openStreams' = openStreams \ {m.conversationId}
     /\ tokensSinceStart' =
           Restrict(tokensSinceStart, streamingByConversation', <<>>)
     /\ reclassified' = reclassified \cap DOMAIN streamingByConversation'
     /\ thinkingSinceStart' =
           Restrict(thinkingSinceStart, streamingByConversation', NoThinkingYet)
     /\ activeConversationId' =
           IF activeConversationId = m.conversationId THEN null
           ELSE activeConversationId
     /\ UNCHANGED <<connectionVars, documentsByConversation, thinkingMode,
                    selectedModel, clientId, isSettingsOpen,
                    conversationsCache, conversationData, viewVars>>

WithinCache == Len(conversationsCache.data) <= MaxConversations

NextCache ==
  \/ \E id \in ClientIds : SetClientId(id)
  \/ SetActiveConversation("A")
  \/ \E list \in ServerLists : FetchConversations(list)
  \/ \E id \in Conversations : CreateMutate(id) /\ WithinCache'
  \/ \E m \in pendingMutations : CreateError(m)
  \/ \E m \in pendingMutations : CreateSuccess(m)
  \/ \E id \in Conversations : DeleteMutate(id)
  \/ \E m \in pendingMutations : DeleteError(m)
  \/ \E m \in pendingMutations : DeleteSuccess(m)

SpecCache == Init /\ [][NextCache]_vars

\* ------------------------------------------------------- thinking stream
ViewUnchanged ==
  UNCHANGED <<storeVars, streamHistory, connectionVars,
              documentsByConversation, thinkingMode, selectedModel, clientId,
              activeConversationId, isSettingsOpen, queryVars>>

\* the thinking stream grows by chunk: the ThinkingTrace effect runs on the
\* new string and processChunk is called with it
ThinkingChunk(chunk) ==
  LET cumulativeStream == fullContent \o chunk
      extracted == extractCompleteSections(cumulativeStream, sectionsEmitted)
  IN /\ ~finalized.called
     /\ chunksReceived < MaxChunks
     /\ chunksReceived' = chunksReceived + 1
     /\ fullContent' = cumulativeStream
     /\ sectionsEmitted' = extracted.sectionsEmitted
     /\ emitted' = emitted \o extracted.newSections
     /\ sections' = thinkingTraceSections(cumulativeStream)
     /\ UNCHANGED <<finalized, bufferVars, composerVars, healthVars>>
     /\ ViewUnchanged

\* the stream has ended: finalizeBuffer()
FinalizeBuffer ==
  /\ ~finalized.called
  /\ finalized' = [called |-> TRUE,
                   section |-> finalizeBuffer(fullContent, sectionsEmitted)]
  /\ UNCHANGED <<fullContent, sectionsEmitted, emitted, sections,
                 chunksReceived, bufferVars, composerVars, healthVars>>
  /\ ViewUnchanged

NextThinking ==
  \/ \E chunk \in ThinkingChunks : ThinkingChunk(chunk)
  \/ FinalizeBuffer

SpecThinking == Init /\ [][NextThinking]_vars

\* ------------------------------------------------- buffered message lines
\* the component renders the hook with new props
Rerender(newContent, newIsStreaming) ==
  LET h == rerender(HookState, contentProp, isStreaming, newContent,
                    newIsStreaming)
  IN /\ contentProp' = newContent
     /\ isStreaming' = newIsStreaming
     /\ lines' = h.lines
     /\ isBuffering' = h.isBuffering
     /\ bufferRef' = h.bufferRef
     /\ previousContentRef' = h.previousContentRef
     /\ processedLengthRef' = h.processedLengthRef
     /\ lineIdCounterRef' = h.lineIdCounterRef
     /\ UNCHANGED <<parserVars, composerVars, healthVars>>
     /\ ViewUnchanged

\* a token is appended to the content of the streaming message
ContentGrows(delta) ==
  /\ isStreaming
  /\ deltasReceived < MaxDeltas
  /\ deltasReceived' = deltasReceived + 1
  /\ Rerender(contentProp \o delta, TRUE)

\* the stream ends, with or without a last token in the same render
StreamingEnds(delta) ==
  /\ isStreaming
  /\ contentProp \o delta # <<>>
  /\ deltasReceived < MaxDeltas \/ delta = <<>>
  /\ deltasReceived' = deltasReceived + (IF delta = <<>> THEN 0 ELSE 1)
  /\ Rerender(contentProp \o delta, FALSE)

\* the content is cleared and a new stream begins
ContentCleared ==
  /\ contentProp # <<>>
  /\ deltasReceived' = 0
  /\ Rerender(<<>>, TRUE)

NextBuffer ==
  \/ \E delta \in ContentDeltas : ContentGrows(delta)
  \/ \E delta \in ContentDeltas \cup {<<>>} : StreamingEnds(delta)
  \/ ContentCleared

SpecBuffer == Init /\ [][NextBuffer]_vars

\* the content prop becomes a text that does not extend the one before, as
\* when the message shown is replaced by another one
ContentReplaced(newContent) ==
  /\ contentProp # <<>>
  /\ newContent # <<>>
  /\ ~startsWith(newContent, contentProp)
  /\ deltasReceived' = 1
  /\ Rerender(newContent, isStreaming)

NextReplace ==
  \/ \E delta \in ReplacementDeltas : ContentGrows(delta)
  \/ \E delta \in ReplacementDeltas \cup {<<>>} : StreamingEnds(delta)
  \/ ContentCleared
  \/ \E newContent \in Replacements :
        Len(lines) <= MaxLines /\ ContentReplaced(newContent)

SpecReplace == Init /\ [][NextReplace]_vars

\* ---------------------------------------------- the composer's documents
DocsUnchanged ==
  UNCHANGED <<storeVars, streamHistory, connectionVars, thinkingMode,
              selectedModel, clientId, activeConversationId, isSettingsOpen,
              queryVars, parserVars, bufferVars, healthVars>>

\* what a navigation leaves alone: the route sync effect of AppShell sets
\* the active conversation
NavigationUnchanged ==
  UNCHANGED <<storeVars, streamHistory, connectionVars, thinkingMode,
              selectedModel, clientId, isSettingsOpen, queryVars, parserVars,
              bufferVars, healthVars>>

\* the effect of AppShell on [pathname]: /chat/<id> makes id the active
\* conversation, / makes none active
routeSync(conversationId) == conversationId

\* the effect on [documents, conversationId] of a mounted composer that
\* renders conversation c with the documents of dbc
documentsEffect(st, dbc, c) == ensureStreams(st, documentsOf(dbc, c), c)

\* handleFileUpload: the upload of a file succeeds and returns document id;
\* the store's list changes, so the documents effect runs
UploadDocument(id) ==
  LET doc == UploadedDocument(id, composerConversationId)
      dbc == addDocument(documentsByConversation, composerConversationId, doc)
      st == documentsEffect(Streams, dbc, composerConversationId)
  IN /\ composerMounted
     /\ composerConversationId # null
     /\ clientId # null
     /\ \A c \in DOMAIN documentsByConversation :
          \A i \in 1..Len(documentsByConversation[c]) :
             documentsByConversation[c][i].id # id
     /\ documentsByConversation' = dbc
     /\ pendingDocuments' = Append(pendingDocuments, doc)
     /\ documentStreamsRef' = st.ref
     /\ eventSources' = st.sources
     /\ UNCHANGED <<composerConversationId, composerMounted, reported,
                    terminated, draftVars>>
     /\ DocsUnchanged

\* es.onmessage of event source es with a payload whose counts do not go
\* back; the store's list may change, and then the documents effect runs
OnDocumentEvent(es, payload) ==
  LET doc == eventSources[es].doc
      conversationId == eventSources[es].conversationId
      updates == storeUpdates(payload, doc)
      dbc == IF updates = EmptyRecord THEN documentsByConversation
             ELSE updateDocument(documentsByConversation, conversationId,
                                 doc.id, updates)
      closed == IF closesStream(payload) THEN closeStream(Streams, es)
                ELSE Streams
      st == IF documentsOf(dbc, composerConversationId)
               # documentsOf(documentsByConversation, composerConversationId)
            THEN documentsEffect(closed, dbc, composerConversationId)
            ELSE closed
  IN /\ es \in 1..Len(eventSources)
     /\ eventSources[es].open
     /\ payload.chunk_count # NoCount => payload.chunk_count >= reported[doc.id]
     /\ reported' = IF payload.chunk_count # NoCount
                    THEN [reported EXCEPT ![doc.id] = payload.chunk_count]
                    ELSE reported
     /\ terminated' = IF payload.type \in {"persisted", "failed"}
                      THEN terminated \cup {doc.id} ELSE terminated
     /\ documentsByConversation' = dbc
     /\ pendingDocuments' =
           mapUpdate(pendingDocuments, doc.id, pendingUpdates(payload, doc))
     /\ documentStreamsRef' = st.ref
     /\ eventSources' = st.sources
     /\ UNCHANGED <<composerConversationId, composerMounted, draftVars>>
     /\ DocsUnchanged

\* es.onerror
OnDocumentStreamError(es) ==
  LET st == closeStream(Streams, es)
  IN /\ es \in 1..Len(eventSources)
     /\ eventSources[es].open
     /\ documentStreamsRef' = st.ref
     /\ eventSources' = st.sources
     /\ UNCHANGED <<documentsByConversation, composerConversationId,
                    composerMounted, pendingDocuments, reported, terminated,
                    draftVars>>
     /\ DocsUnchanged

\* the route changes and the composer is rendered for another conversation:
\* the cleanup of the effect on [conversationId] runs, then the documents
\* effect, and AppShell syncs the active conversation
ComposerConversationChanges(c) ==
  LET st == documentsEffect(closeAllStreams(Streams),
                            documentsByConversation, c)
  IN /\ composerMounted
     /\ c # composerConversationId
     /\ composerConversationId' = c
     /\ activeConversationId' = routeSync(c)
     /\ documentStreamsRef' = st.ref
     /\ eventSources' = st.sources
     /\ UNCHANGED <<documentsByConversation, composerMounted, pendingDocuments,
                    reported, terminated, draftVars>>
     /\ NavigationUnchanged

\* the composer unmounts: its state is gone and the cleanup runs
ComposerUnmounts ==
  LET st == closeAllStreams(Streams)
  IN /\ composerMounted
     /\ composerMounted' = FALSE
     /\ pendingDocuments' = <<>>
     /\ documentStreamsRef' = st.ref
     /\ eventSources' = st.sources
     /\ input' = <<>>
     /\ isCreatingConversation' = FALSE
     /\ createCallbacks' = {}
     /\ UNCHANGED <<documentsByConversation, composerConversationId, reported,
                    terminated, titleRequests>>
     /\ DocsUnchanged

\* a new composer mounts for conversation c with an empty map
ComposerMounts(c) ==
  LET st == documentsEffect([ref |-> EmptyRecord, sources |-> eventSources],
                            documentsByConversation, c)
  IN /\ ~composerMounted
     /\ composerMounted' = TRUE
     /\ composerConversationId' = c
     /\ activeConversationId' = routeSync(c)
     /\ documentStreamsRef' = st.ref
     /\ eventSources' = st.sources
     /\ UNCHANGED <<documentsByConversation, pendingDocuments, reported,
                    terminated, draftVars>>
     /\ NavigationUnchanged

WithinDocs == Len(eventSources) <= MaxEventSources

NextDocs ==
  \/ \E id \in ClientIds : SetClientId(id)
  \/ \E id \in DocumentIds : UploadDocument(id) /\ WithinDocs'
  \/ \E es \in 1..MaxEventSources, payload \in DocumentEvents :
        OnDocumentEvent(es, payload) /\ WithinDocs'
  \/ \E es \in 1..MaxEventSources : OnDocumentStreamError(es)
  \/ \E c \in {"A", null} : ComposerConversationChanges(c) /\ WithinDocs'
  \/ ComposerUnmounts
  \/ ComposerMounts("A") /\ WithinDocs'

SpecDocs == Init /\ [][NextDocs]_vars

\* ------------------------------------------------- the composer's submit
\* str.lastIndexOf(' '): 0-based, -1 when there is none
lastIndexOfSpace(str) ==
  LET at == {i \in 1..Len(str) : str[i] = " "}
  IN IF at = {} THEN -1 ELSE MaxOf(at) - 1

\* the title handleSubmit computes for the first message of a conversation
autoTitle_cutsAtFifty(userMessage) ==
  LET title == sliceTo(userMessage, 50)
  IN IF Len(userMessage) > 50 THEN title \o Ellipsis ELSE title

autoTitle(userMessage) ==
  LET title == sliceTo(userMessage, 50)
      lastSpace == lastIndexOfSpace(title)
  IN IF Len(userMessage) > 50
     THEN (IF lastSpace > 0 THEN sliceTo(title, lastSpace) ELSE title)
          \o Ellipsis
     ELSE title

\* the early return of handleSubmit is not taken
submitProceeds ==
  ~(\/ trim(input) = <<>> /\ pendingDocuments = <<>>
    \/ clientId = null
    \/ ~isConnected)

\* the Send button is rendered and enabled
sendButtonEnabled ==
  /\ ~(/\ composerConversationId # null
       /\ isConversationStreaming(streamingByConversation,
                                  composerConversationId))
  /\ ~(\/ ~isConnected
       \/ trim(input) = <<>> /\ pendingDocuments = <<>>
       \/ isCreatingConversation
       \/ \E i \in 1..Len(pendingDocuments) :
            pendingDocuments[i].status = "processing")

\* ids generateConversationId can return
NewConversationIds ==
  FreshIds \ (DOMAIN messagesByConversation
              \cup DOMAIN documentsByConversation
              \cup {activeConversationId})

\* handleSubmit past its early return; newId is what generateConversationId
\* returns when the composer has no conversation
handleSubmit(newId) ==
  LET userMessage == trim(input)
      attachedDocuments == pendingDocuments
      creates == composerConversationId = null
      targetConversationId == IF creates THEN newId ELSE composerConversationId
      mbc == addMessage(messagesByConversation, targetConversationId,
                        [role |-> "user", content |-> userMessage,
                         documents |-> attachedDocuments])
      \* conversations is the list of the render the handler belongs to
      conversations == conversationsCache.data
      titled == /\ \E i \in 1..Len(conversations) :
                     /\ conversations[i].id = targetConversationId
                     /\ conversations[i].title = "New Conversation"
                /\ Len(getMessages(mbc, targetConversationId)) = 1
      accepted == /\ mounted
                  /\ wsRef # NoSocket
                  /\ readyState[wsRef] = "OPEN"
                  /\ ~isConversationStreaming(streamingByConversation,
                                              targetConversationId)
  IN /\ submitProceeds
     /\ input' = <<>>
     /\ pendingDocuments' = <<>>
     /\ IF creates
        THEN /\ FreeMutationIds # {}
             /\ newId \in NewConversationIds
             /\ isCreatingConversation' = TRUE
             /\ createCallbacks' = createCallbacks \cup {newId}
             /\ pendingMutations' = pendingMutations \cup
                   {Mutation("create", newId, conversationsCache)}
             /\ conversationsCache' =
                   Loaded(<<optimisticConversation(newId)>>
                          \o conversationsCache.data)
             /\ activeConversationId' = newId
        ELSE UNCHANGED <<isCreatingConversation, createCallbacks,
                         pendingMutations, conversationsCache,
                         activeConversationId>>
     /\ messagesByConversation' = mbc
     /\ titleRequests' =
           IF titled
           THEN Append(titleRequests,
                       [conversationId |-> targetConversationId,
                        title |-> autoTitle(userMessage)])
           ELSE titleRequests
     /\ IF accepted
        THEN /\ pendingRequestsRef' =
                  pendingRequestsRef \cup {targetConversationId}
             /\ connectionLostHandledRef' = FALSE
             /\ inFlight' = [inFlight EXCEPT ![targetConversationId] = @ + 1]
        ELSE UNCHANGED <<pendingRequestsRef, connectionLostHandledRef,
                         inFlight>>
     /\ UNCHANGED <<streamingByConversation, streamHistory, isConnected,
                    backendReady, wsRef, isConnectingRef, readyState,
                    reconnectTimers, stopTimers, mounted, stoppedOn,
                    documentsByConversation, thinkingMode, selectedModel,
                    clientId, isSettingsOpen, conversationData, parserVars,
                    bufferVars, composerConversationId, composerMounted,
                    documentStreamsRef, eventSources, reported, terminated,
                    healthVars>>

\* the user clicks the Send button
SubmitByButton ==
  /\ composerMounted
  /\ sendButtonEnabled
  /\ \E newId \in IF composerConversationId = null THEN Conversations
                  ELSE {null} : handleSubmit(newId)

\* handleKeyDown: the user presses Enter without Shift in the textarea, which
\* is enabled while isConnected
SubmitByEnter ==
  /\ composerMounted
  /\ isConnected
  /\ \E newId \in IF composerConversationId = null THEN Conversations
                  ELSE {null} : handleSubmit(newId)

\* onChange of the textarea, which is enabled while isConnected
SetInput(text) ==
  /\ composerMounted
  /\ isConnected
  /\ text # input
  /\ input' = text
  /\ UNCHANGED <<composerConversationId, composerMounted, pendingDocuments,
                 documentStreamsRef, eventSources, reported, terminated,
                 isCreatingConversation, createCallbacks, titleRequests,
                 documentsByConversation>>
  /\ DocsUnchanged

\* removePendingDocument(docId)
RemovePendingDocument(docId) ==
  /\ composerMounted
  /\ \E i \in 1..Len(pendingDocuments) : pendingDocuments[i].id = docId
  /\ pendingDocuments' =
        SelectSeq(pendingDocuments, LAMBDA doc : doc.id # docId)
  /\ UNCHANGED <<composerConversationId, composerMounted, documentStreamsRef,
                 eventSources, reported, terminated, draftVars,
                 documentsByConversation>>
  /\ DocsUnchanged

\* the create mutation of the composer settles while it is mounted: on
\* success router.replace shows the chat page, whose composer is a new one
\* for the created conversation; on error the cache is rolled back
ComposerCreateSettles(m, ok) ==
  LET closed == closeAllStreams(Streams)
      st == documentsEffect([ref |-> EmptyRecord, sources |-> closed.sources],
                            documentsByConversation, m.conversationId)
  IN /\ composerMounted
     /\ m \in pendingMutations
     /\ m.kind = "create"
     /\ m.conversationId \in createCallbacks
     /\ pendingMutations' = pendingMutations \ {m}
     /\ createCallbacks' = createCallbacks \ {m.conversationId}
     /\ isCreatingConversation' = FALSE
     /\ IF ok
        THEN /\ UNCHANGED conversationsCache
             /\ composerConversationId' = m.conversationId
             /\ activeConversationId' = routeSync(m.conversationId)
             /\ input' = <<>>
             /\ pendingDocuments' = <<>>
             /\ documentStreamsRef' = st.ref
             /\ eventSources' = st.sources
        ELSE /\ conversationsCache' =
                   IF m.previousConversations.loaded
                   THEN m.previousConversations ELSE conversationsCache
             /\ UNCHANGED <<composerConversationId, activeConversationId,
                            input, pendingDocuments, documentStreamsRef,
                            eventSources>>
     /\ UNCHANGED <<storeVars, streamHistory, connectionVars,
                    documentsByConversation, thinkingMode, selectedModel,
                    clientId, isSettingsOpen,
                    conversationData, parserVars, bufferVars, composerMounted,
                    reported, terminated, titleRequests, healthVars>>

WithinComposer ==
  /\ TotalMessages <= MaxSubmits
  /\ \A c \in Conversations : inFlight[c] <= MaxInFlight
  /\ Len(eventSources) <= MaxEventSources
  /\ Len(conversationsCache.data) <= MaxConversations

\* the events that end an ingestion
TerminalEvents ==
  {payload \in DocumentEvents :
     payload.type \in {"persisted", "failed"} /\ payload.chunk_count # 0}

NextComposer ==
  \/ \E id \in ClientIds : SetClientId(id)
  \/ BackendReady
  \/ \E s \in SockIds : OnOpen(s)
  \/ UploadDocument("d1") /\ WithinComposer'
  \/ \E es \in 1..MaxEventSources, payload \in TerminalEvents :
        OnDocumentEvent(es, payload) /\ WithinComposer'
  \/ ComposerConversationChanges("A") /\ WithinComposer'
  \/ \E text \in ShortInputs : SetInput(text)
  \/ \E docId \in DocumentIds : RemovePendingDocument(docId)
  \/ SubmitByButton /\ WithinComposer'
  \/ SubmitByEnter /\ WithinComposer'
  \/ \E m \in pendingMutations, ok \in BOOLEAN :
        ComposerCreateSettles(m, ok) /\ WithinComposer'

SpecComposer == Init /\ [][NextComposer]_vars

\* The composer next to a conversation that the server streams into and the
\* user stops: the start event of a stream for A arrives, and the Stop button
\* closes the socket.
NextSubmit ==
  \/ NextComposer
  \/ \E s \in SockIds : OnStart(s, "A")
  \/ StopStreaming("A")

SpecSubmit == Init /\ [][NextSubmit]_vars

\* the composer up to the first message of the store
NoMessageYet == TotalMessages = 0

NextTitle ==
  \/ \E id \in ClientIds : SetClientId(id)
  \/ BackendReady
  \/ \E s \in SockIds : OnOpen(s)
  \/ CreateMutate("A") /\ WithinComposer'
  \/ ComposerConversationChanges("A") /\ WithinComposer'
  \/ \E text \in TypedMessages : NoMessageYet /\ SetInput(text)
  \/ NoMessageYet /\ SubmitByEnter

SpecTitle == Init /\ [][NextTitle]_vars

\* ---------------------------------------------------- useBackendConnection
HealthUnchanged ==
  UNCHANGED <<storeVars, streamHistory, isConnected, pendingRequestsRef,
              connectionLostHandledRef, reconnectTimers, stopTimers, mounted,
              inFlight, stoppedOn, documentsByConversation, thinkingMode,
              selectedModel, clientId, activeConversationId, isSettingsOpen,
              queryVars, parserVars, bufferVars, composerVars>>

\* the effect of the hook runs: the first run starts checkBackend, which
\* enters its loop and fetches
HealthCheckStarts ==
  /\ ~hasChecked
  /\ hasChecked' = TRUE
  /\ healthCheck' = IF retryCount < maxRetries THEN "fetching" ELSE "done"
  /\ UNCHANGED <<retryCount, attempts, lastFailure, delay, backendReady, wsRef,
                 isConnectingRef, readyState>>
  /\ HealthUnchanged

\* the fetch of one attempt settles: a response that is ok, a response that
\* is not, or a rejection (network error, or the abort of the 5000 ms timeout)
FetchSettles(outcome) ==
  /\ healthCheck = "fetching"
  /\ attempts' = attempts + 1
  /\ IF outcome = "ok"
     THEN \* setBackendReady(true); return. The effect of the manager on
          \* [backendReady] connects
          /\ backendReady' = TRUE
          /\ healthCheck' = "done"
          /\ IF /\ mounted
                /\ ~backendReady
                /\ wsRef = NoSocket
                /\ CanConnect(TRUE, wsRef, isConnectingRef, readyState)
             THEN connect(TRUE, wsRef, isConnectingRef, readyState)
             ELSE UNCHANGED <<isConnectingRef, readyState, wsRef>>
          /\ UNCHANGED <<lastFailure, delay>>
     ELSE /\ lastFailure' = outcome
          /\ delay' = backoffDelay(retryCount)
          /\ healthCheck' = "waiting"
          /\ UNCHANGED <<backendReady, isConnectingRef, readyState, wsRef>>
  /\ UNCHANGED <<hasChecked, retryCount>>
  /\ HealthUnchanged

\* the backoff timer fires: retryCount++, then the loop condition; when it
\* fails, setBackendReady(false)
BackoffTimer ==
  /\ healthCheck = "waiting"
  /\ retryCount' = retryCount + 1
  /\ IF retryCount + 1 < maxRetries
     THEN /\ healthCheck' = "fetching"
          /\ UNCHANGED backendReady
     ELSE /\ healthCheck' = "done"
          /\ backendReady' = FALSE
  /\ UNCHANGED <<hasChecked, attempts, lastFailure, delay, wsRef,
                 isConnectingRef, readyState>>
  /\ HealthUnchanged

NextHealth ==
  \/ HealthCheckStarts
  \/ \E outcome \in {"ok", "not ok", "rejected"} : FetchSettles(outcome)
  \/ BackoffTimer
  \/ \E s \in SockIds : OnOpen(s)

HealthFairness ==
  /\ WF_vars(HealthCheckStarts)
  /\ WF_vars(\E outcome \in {"ok", "not ok", "rejected"} : FetchSettles(outcome))
  /\ WF_vars(BackoffTimer)

SpecHealth == Init /\ [][NextHealth]_vars /\ HealthFairness

\* ================================================================ claims
MessagesOf(mbc, c) == IF c \in DOMAIN mbc THEN mbc[c] ELSE <<>>

\* conversation d has the same streaming entry and message list after the step
SameConversation(d) ==
  /\ (d \in DOMAIN streamingByConversation') = (d \in DOMAIN streamingByConversation)
  /\ d \in DOMAIN streamingByConversation =>
        streamingByConversation'[d] = streamingByConversation[d]
  /\ MessagesOf(messagesByConversation', d) = MessagesOf(messagesByConversation, d)

OthersUnchanged(c) == \A d \in Conversations \ {c} : SameConversation(d)

\* the step appends exactly message m to conversation c
AppendsExactly(c, m) ==
  MessagesOf(messagesByConversation', c) =
    Append(MessagesOf(messagesByConversation, c), m)

Plain(content, thinking) ==
  IF Len(thinking) > 0
  THEN [role |-> "assistant", content |-> content, thinking |-> thinking]
  ELSE [role |-> "assistant", content |-> content]

\* ---- C1
C1_Accumulates ==
  \A c \in DOMAIN streamingByConversation :
     c \notin reclassified =>
        streamingByConversation[c].content = tokensSinceStart[c]

C1_CompletePersists ==
  \A s \in SockIds, c \in Conversations :
     (OnComplete(s, c) /\ c \in DOMAIN streamingByConversation
                      /\ c \notin reclassified)
     => /\ Len(MessagesOf(messagesByConversation', c))
             = Len(MessagesOf(messagesByConversation, c)) + 1
        /\ MessagesOf(messagesByConversation', c)
             [Len(MessagesOf(messagesByConversation', c))].content
             = tokensSinceStart[c]

C1_Isolated ==
  \A s \in SockIds, c \in Conversations :
     (\/ OnStart(s, c)
      \/ \E t \in Tokens : OnToken(s, c, t)
      \/ OnComplete(s, c))
     => OthersUnchanged(c)

\* C1: conversations stream concurrently over the one socket.  While a
\* conversation streams (and no reclassify event has intervened) its
\* accumulated content is the concatenation, in arrival order, of the token
\* contents addressed to it since its start; a complete event persists an
\* assistant message with exactly that content; a start, token or complete
\* event addressed to one conversation leaves every other conversation's
\* streaming entry and message list as they were.
C1_ConcurrentStreams ==
  [] C1_Accumulates /\ [][C1_CompletePersists /\ C1_Isolated]_vars

\* A still streams "x" while B, whose token "y" arrived in between, has
\* completed with "y"
C1_Witness ==
  /\ "A" \in DOMAIN streamingByConversation
  /\ streamingByConversation["A"].content = <<"x">>
  /\ "B" \notin DOMAIN streamingByConversation
  /\ MessagesOf(messagesByConversation, "B")
       = <<[role |-> "assistant", content |-> <<"y">>]>>

\* ---- C2
\* C2: a complete event for a streaming conversation X with content c and
\* thinking t appends exactly one assistant message {content c, thinking t
\* only if t is non-empty} to X, removes X's streaming entry, and changes no
\* other conversation's messages or streaming entry.
C2_CompletePersistsOne ==
  [][\A s \in SockIds, c \in Conversations :
       (OnComplete(s, c) /\ c \in DOMAIN streamingByConversation)
       => /\ AppendsExactly(c, Plain(streamingByConversation[c].content,
                                     streamingByConversation[c].thinking))
          /\ c \notin DOMAIN streamingByConversation'
          /\ OthersUnchanged(c)]_vars

\* X completed twice: once with thinking, once without
C2_Witness ==
  \E c \in Conversations :
     /\ c \notin DOMAIN streamingByConversation
     /\ MessagesOf(messagesByConversation, c)
          = <<[role |-> "assistant", content |-> <<>>, thinking |-> <<"t">>],
              [role |-> "assistant", content |-> <<>>]>>

\* ---- C3
LostMessage(sm) ==
  IF Len(sm.content) > 0
  THEN Plain(sm.content \o <<"\n\n(Connection lost)">>, sm.thinking)
  ELSE [role |-> "assistant", content |-> <<"(Connection lost)">>]

\* C3: when a socket closes and the closure has not already been handled,
\* every conversation streaming at that moment gets exactly one assistant
\* message appended: its content followed by "\n\n(Connection lost)" with the
\* thinking kept if present, or exactly "(Connection lost)" when the content
\* is empty; afterwards no conversation is marked streaming.
C3_ConnectionLost ==
  [][\A s \in SockIds :
       ((\E failed \in BOOLEAN : OnClose(s, failed)) /\ ~connectionLostHandledRef)
       => /\ \A c \in DOMAIN streamingByConversation :
                AppendsExactly(c, LostMessage(streamingByConversation[c]))
          /\ DOMAIN streamingByConversation' = {}]_vars

\* the connection was lost while A had streamed "x" and B nothing yet
C3_Witness ==
  /\ DOMAIN streamingByConversation = {}
  /\ connectionLostHandledRef
  /\ MessagesOf(messagesByConversation, "A")
       = <<[role |-> "assistant",
            content |-> <<"x", "\n\n(Connection lost)">>]>>
  /\ MessagesOf(messagesByConversation, "B")
       = <<[role |-> "assistant", content |-> <<"(Connection lost)">>]>>

\* ---- C4
\* C4: an error event that carries a conversation_id appends exactly one
\* assistant message "Error: " + the server's message to that conversation,
\* streaming or not, removes that conversation's streaming entry, and leaves
\* every other conversation's streaming entry and message list unchanged.
C4_ErrorEvent ==
  [][\A s \in SockIds, c \in Conversations, m \in ErrorTexts :
       OnError(s, c, m)
       => /\ AppendsExactly(c, [role |-> "assistant",
                                content |-> <<"Error: ">> \o
                                   (IF m = Absent THEN <<"undefined">> ELSE m)])
          /\ c \notin DOMAIN streamingByConversation'
          /\ OthersUnchanged(c)]_vars

\* an error ended one conversation while the other one keeps its partial
\* stream
C4_Witness ==
  \E c \in Conversations, d \in Conversations :
     /\ c # d
     /\ c \notin DOMAIN streamingByConversation
     /\ MessagesOf(messagesByConversation, c)
          = <<[role |-> "assistant", content |-> <<"Error: ", "m">>]>>
     /\ d \in DOMAIN streamingByConversation
     /\ streamingByConversation[d].content = <<"x">>

\* ---- C5
\* C5: sendMessage prevents duplicate concurrent sends: at any moment at most
\* one accepted request per conversation is outstanding, so between an
\* accepted sendMessage for X and the end of X's response (complete, error,
\* stop, connection loss) no further sendMessage for X is accepted.
C5_OneOutstandingRequest ==
  \A c \in Conversations : inFlight[c] <= 1

\* ---- C6
\* C6: stopping one conversation's stream cancels every conversation's
\* stream: once the socket closed by stopStreaming has delivered its close
\* event, no conversation remains marked streaming.
C6_StopCancelsAll ==
  [][\A s \in SockIds :
       ((\E failed \in BOOLEAN : OnClose(s, failed)) /\ stoppedOn[s] # {})
       => DOMAIN streamingByConversation' = {}]_vars

\* ---- C7
C7_StopPersistsPartial ==
  \A c \in Conversations :
     (/\ StopStreaming(c)
      /\ c \in DOMAIN streamingByConversation
      /\ wsRef # NoSocket
      /\ Len(streamingByConversation[c].content) > 0)
     => /\ AppendsExactly(c, Plain(streamingByConversation[c].content,
                                   streamingByConversation[c].thinking))
        /\ c \notin DOMAIN streamingByConversation'
        /\ readyState'[wsRef] \in {"CLOSING", "CLOSED"}
        /\ stopTimers' = stopTimers + 1

C7_CloseNotProcessedAgain ==
  \A s \in SockIds :
     (\E failed \in BOOLEAN : OnClose(s, failed))
     => \A c \in stoppedOn[s] :
           MessagesOf(messagesByConversation', c)
             = MessagesOf(messagesByConversation, c)

\* C7: stopStreaming(X) on a conversation streaming partial content c appends
\* exactly one assistant message with content c (thinking kept if non-empty,
\* no connection-lost marker) to X, clears X's streaming entry, closes the
\* socket and schedules the 200 ms reconnect; the close event caused by the
\* stop appends no further message to X.
C7_StopStreaming ==
  [][C7_StopPersistsPartial /\ C7_CloseNotProcessedAgain]_vars

\* ---- C8
CurrentSocketClosed ==
  /\ mounted
  /\ backendReady
  /\ wsRef # NoSocket
  /\ readyState[wsRef] = "CLOSED"

C8_SupersededTimerIdle ==
  \A s \in SockIds :
     (ReconnectTimer(s) /\ wsRef # s)
     => UNCHANGED <<wsRef, readyState, isConnectingRef>>

\* C8: after the manager's current socket has closed while backendReady is
\* true and the manager is mounted, a connection attempt follows, so the
\* manager does not stay without a connecting or open socket (unless it is
\* torn down first); the 3000 ms timer of a socket that a newer socket has
\* superseded triggers no connect.
C8_Reconnects ==
  /\ CurrentSocketClosed
       ~> (~mounted \/ \E s \in SockIds : readyState[s] \in {"CONNECTING", "OPEN"})
  /\ [][C8_SupersededTimerIdle]_vars

\* the current socket is closed, nothing is connecting or open, and only its
\* own 3000 ms timer can bring the connection back
C8_Witness ==
  /\ CurrentSocketClosed
  /\ \A s \in SockIds : readyState[s] \notin {"CONNECTING", "OPEN"}
  /\ stopTimers = 0
  /\ reconnectTimers = {wsRef}

\* ---- C9
LiveSockets == {s \in SockIds : readyState[s] \in {"CONNECTING", "OPEN"}}

\* C9: under any interleaving of connect calls, timers, stopStreaming calls
\* and socket events, at most one socket created by the manager is connecting
\* or open at any time.
C9_SingleLiveSocket == Cardinality(LiveSockets) <= 1

\* ---- C10
\* C10: after the manager's teardown no new socket is ever created.
C10_NoSocketAfterTeardown ==
  [][~mounted =>
       \A s \in SockIds :
          readyState'[s] = "CONNECTING" => readyState[s] = "CONNECTING"]_vars

\* ---- C11
C11_EventForIdleConversation(s, c) ==
  \/ \E t \in Thinkings : OnThinking(s, c, t)
  \/ \E t \in Tokens : OnToken(s, c, t)
  \/ OnReclassify(s, c)
  \/ OnComplete(s, c)

C11_Step ==
  /\ \A s \in SockIds : OnDropped(s) => UNCHANGED storeVars
  /\ \A s \in SockIds, c \in Conversations :
       (c \notin DOMAIN streamingByConversation
        /\ C11_EventForIdleConversation(s, c))
       => UNCHANGED storeVars
  /\ \A c \in Conversations :
       (c \notin DOMAIN streamingByConversation /\ StopStreaming(c))
       => UNCHANGED <<storeVars, wsRef, readyState, stopTimers, isConnected,
                      connectionLostHandledRef, pendingRequestsRef>>

\* C11: a server message without conversation_id, a thinking, token,
\* reclassify or complete event for a conversation without streaming entry,
\* and stopStreaming for a conversation that is not streaming, leave
\* messagesByConversation and streamingByConversation unchanged; the stop
\* also leaves the socket as it is.
C11_ProtocolViolationsAreNoOps == [][C11_Step]_vars

\* A has completed and B streams on the open socket: any further event for A
\* and a stop of A are the cases of the claim
C11_Witness ==
  /\ wsRef # NoSocket
  /\ readyState[wsRef] = "OPEN"
  /\ "A" \notin DOMAIN streamingByConversation
  /\ MessagesOf(messagesByConversation, "A") = <<[role |-> "assistant", content |-> <<"x">>]>>
  /\ "B" \in DOMAIN streamingByConversation
  /\ streamingByConversation["B"].thinking = <<"t">>
C12_Stored ==
  \A c \in DOMAIN streamingByConversation :
     streamingByConversation[c].thinking =
        IF thinkingSinceStart[c].reclassifiedSince
        THEN <<>>
        ELSE thinkingSinceStart[c].supplied

C12_Step ==
  \A s \in SockIds, c \in DOMAIN streamingByConversation :
     /\ \A t \in Thinkings :
          OnThinking(s, c, t)
          => /\ streamingByConversation'[c].thinking = t
             /\ streamingByConversation'[c].content =
                   streamingByConversation[c].content
     /\ \A t \in Tokens :
          OnToken(s, c, t)
          => /\ streamingByConversation'[c].thinking =
                   streamingByConversation[c].thinking
             /\ streamingByConversation'[c].content =
                   streamingByConversation[c].content \o t

C13_ExactSet ==
  /\ getStreamingConversations(streamingByConversation) = openStreams
  /\ \A c \in Conversations :
       /\ isConversationStreaming(streamingByConversation, c)
            <=> c \in openStreams
       /\ (getStreamingMessage(streamingByConversation, c) = <<>>)
            <=> c \notin openStreams
       \* completeStreaming is idempotent
       /\ completeStreaming(completeStreaming(streamingByConversation, c), c)
            = completeStreaming(streamingByConversation, c)

C13_CompleteRemovesExactlyOne ==
  \A c \in Conversations :
     CompleteStreaming(c)
     => /\ getStreamingMessage(streamingByConversation', c) = <<>>
        /\ \A d \in Conversations \ {c} :
             getStreamingMessage(streamingByConversation', d)
               = getStreamingMessage(streamingByConversation, d)

\* C13: getStreamingConversations() is exactly the set of conversations whose
\* most recent startStreaming was not followed by a completeStreaming or
\* clearMessages, isConversationStreaming holds exactly for its members, and
\* completeStreaming(X) removes exactly X, leaves the other streams untouched
\* and is idempotent.
C13_StreamingSet == [] C13_ExactSet /\ [][C13_CompleteRemovesExactlyOne]_vars

\* B was started, updated and cleared, A was started and updated and still
\* streams next to a durable message of its conversation
C13_Witness ==
  /\ openStreams = {"A"}
  /\ DOMAIN streamingByConversation = {"A"}
  /\ streamingByConversation["A"].content = <<"x">>
  /\ MessagesOf(messagesByConversation, "A") = <<UserMessage>>
  /\ "B" \notin DOMAIN messagesByConversation
\* ---- C14
C14_Frame ==
  \A id \in Conversations \cup {null} :
     SetActiveConversation(id)
     => /\ activeConversationId' = id
        /\ UNCHANGED <<storeVars, documentsByConversation, thinkingMode,
                       selectedModel, clientId, isSettingsOpen, isConnected,
                       backendReady>>

C14_BackgroundAccumulates ==
  \A c \in DOMAIN streamingByConversation :
     /\ streamingByConversation[c].content = tokensSinceStart[c]
     /\ streamingByConversation[c].thinking = <<>>

C14_BackgroundCompletes ==
  \A s \in SockIds, c \in DOMAIN streamingByConversation :
     OnComplete(s, c)
     => /\ MessagesOf(messagesByConversation', c) =
             Append(MessagesOf(messagesByConversation, c),
                    [role |-> "assistant", content |-> tokensSinceStart[c]])
        /\ c \notin DOMAIN streamingByConversation'

\* C14: setActiveConversation changes only activeConversationId, and a
\* conversation keeps accumulating its tokens and completes with exactly
\* them, however the active conversation is switched in between.
C14_ActiveIndependent ==
  /\ [] C14_BackgroundAccumulates
  /\ [][C14_Frame /\ C14_BackgroundCompletes]_vars

\* B is active while A, already completed once, streams again
C14_Witness ==
  /\ activeConversationId = "B"
  /\ MessagesOf(messagesByConversation, "A")
       = <<[role |-> "assistant", content |-> <<"x">>]>>
  /\ "A" \in DOMAIN streamingByConversation
  /\ streamingByConversation["A"].content = <<"y">>
\* ---- C15
PersistedFields ==
  {"messagesByConversation", "documentsByConversation", "thinkingMode",
   "selectedModel", "clientId"}

C15_Payload == DOMAIN partialize = PersistedFields

C15_Reload ==
  Reload
  => /\ streamingByConversation' = EmptyRecord
     /\ activeConversationId' = null
     /\ isSettingsOpen' = FALSE
     /\ UNCHANGED <<messagesByConversation, documentsByConversation,
                    thinkingMode, selectedModel, clientId>>

C16_IgnoredWhileStreaming ==
  [][\A sm \in ListsOver(ServerMessages, MaxList) :
        (Reconcile("A", sm) /\ "A" \in DOMAIN streamingByConversation)
        => UNCHANGED storeVars]_vars

\* A streams "x" on top of a local list that differs from every server list
C16_Witness ==
  /\ "A" \in DOMAIN streamingByConversation
  /\ streamingByConversation["A"].content = <<"x">>
  /\ MessagesOf(messagesByConversation, "A")
       = <<[role |-> "user", content |-> <<"u">>, documents |-> <<"d1">>]>>
\* ---- C17
C17_Differs(sm, local) ==
  \E i \in 1..Len(sm) :
     \/ sm[i].role # local[i].role
     \/ sm[i].content # local[i].content
     \/ ThinkingOf(sm[i]) # ThinkingOf(local[i])

C17_Adopted(after, sm, local) ==
  /\ Len(after) = Len(sm)
  /\ \A i \in 1..Len(sm) :
       /\ after[i].role = sm[i].role
       /\ after[i].content = sm[i].content
       /\ ThinkingOf(after[i]) = ThinkingOf(sm[i])
       /\ IF /\ "documents" \notin DOMAIN sm[i]
             /\ sm[i].role = local[i].role
             /\ "documents" \in DOMAIN local[i]
          THEN /\ "documents" \in DOMAIN after[i]
               /\ after[i].documents = local[i].documents
          ELSE DOMAIN after[i] = DOMAIN sm[i]

C17_Step ==
  \A sm \in ListsOver(ServerMessages, MaxList) :
     LET local == MessagesOf(messagesByConversation, "A")
         after == MessagesOf(messagesByConversation', "A")
     IN (/\ Reconcile("A", sm)
         /\ "A" \notin DOMAIN streamingByConversation
         /\ Len(sm) = Len(local))
        => IF C17_Differs(sm, local)
           THEN C17_Adopted(after, sm, local)
           ELSE after = local

\* C17: for lists of equal length with a difference in role, content or
\* thinking the server's messages are adopted, a server message without
\* documents whose role matches the local message at its position and whose
\* local counterpart has documents carrying them forward; without a
\* difference the local list stays as it is.
C17_EqualLengthMerge == [][C17_Step]_vars

\* the server's "v" replaced the local "u" and kept its document; the
\* assistant message took the server's thinking
C17_Witness ==
  MessagesOf(messagesByConversation, "A")
    = <<[role |-> "user", content |-> <<"v">>, documents |-> <<"d1">>],
        [role |-> "assistant", content |-> <<"x">>, thinking |-> <<"t">>]>>
\* ---- C18
C18_Step ==
  \A sm \in ListsOver(ServerMessages, MaxList) :
     LET after == MessagesOf(messagesByConversation', "A")
     IN (Reconcile("A", sm) /\ "A" \notin DOMAIN streamingByConversation)
        => /\ Len(after) = Len(sm)
           /\ \A i \in 1..Len(sm) :
                /\ after[i].role = sm[i].role
                /\ after[i].content = sm[i].content
                /\ ThinkingOf(after[i]) = ThinkingOf(sm[i])

\* C18: after the reconciliation effect has processed a server response for
\* a conversation that is not streaming, the local list has the same
\* messages (role, content, thinking) in the same positions as the server's.
C18_ReflectsServerOrder == [][C18_Step]_vars
\* ---- C19
C19_PositionOf(list, x) == {i \in 1..Len(list) : list[i].id = x}

C19_Step ==
  /\ \A x \in Conversations :
       (DeleteMutate(x) /\ x \in IdsOf(conversationsCache.data))
       => /\ x \notin IdsOf(conversationsCache'.data)
          /\ \E m \in pendingMutations' \ pendingMutations :
               /\ m.conversationId = x
               /\ m.previousConversations = conversationsCache
  /\ \A m \in pendingMutations :
       (DeleteError(m) /\ m.conversationId \in IdsOf(m.previousConversations.data))
       => /\ conversationsCache' = m.previousConversations
          /\ \A i \in C19_PositionOf(m.previousConversations.data, m.conversationId) :
               /\ i <= Len(conversationsCache'.data)
               /\ conversationsCache'.data[i] = m.previousConversations.data[i]

\* C19: deleting a conversation X of the cached list removes X from the list
\* when the mutation starts, before its request resolves; when the request
\* fails the list is restored to what it was before the removal, X being the
\* same record at the same position.
C19_OptimisticDeleteRollsBack == [][C19_Step]_vars

\* X was second in the list, was removed, and a failed delete is pending
C19_Witness ==
  \E m \in pendingMutations :
     /\ m.kind = "delete"
     /\ m.conversationId = "B"
     /\ m.previousConversations =
          Loaded(<<ServerConversation("A"), ServerConversation("B")>>)
     /\ conversationsCache = Loaded(<<ServerConversation("A")>>)

\* ---- C20
C20_Step ==
  \A m \in pendingMutations :
     CreateError(m) => conversationsCache' = m.previousConversations

\* C20: after a failed create the cached conversations list equals the
\* snapshot taken when the mutation started, whether the list was populated,
\* empty or not yet loaded.
C20_FailedCreateRestoresSnapshot == [][C20_Step]_vars
\* ---- C21
\* the full section list of a thinking string: the synthesized leading
\* section if any, then every marked section, or the single synthesized
\* section when there is no marker
C21_FullSectionList(content) ==
  LET firstMarkerIndex == indexOfMarker(content)
      leading == trim(sliceTo(content, firstMarkerIndex))
  IN IF firstMarkerIndex = -1
     THEN IF trim(content) = <<>> THEN <<>>
          ELSE synthesized(trim(content), trim(content))
     ELSE (IF leading = <<>> THEN <<>> ELSE synthesized(leading, leading))
          \o structuredSections(parts(sliceFrom(content, firstMarkerIndex)))

\* C21: the sections the successive processChunk calls returned, followed by
\* the result of finalizeBuffer, are the full section list of the last
\* cumulative string, each section once and in order; before finalizeBuffer
\* the returned sections are a prefix of that list, at most the last missing.
C21_EmitsEachSectionOnce ==
  LET full == C21_FullSectionList(fullContent)
  IN /\ Len(emitted) <= Len(full)
     /\ emitted = SubSeq(full, 1, Len(emitted))
     /\ finalized.called => emitted \o finalized.section = full

\* a leading section and a marked section were returned by earlier calls and
\* finalizeBuffer returned the third
C21_Witness ==
  /\ finalized.called
  /\ Len(emitted) = 2
  /\ finalized.section # <<>>
  /\ emitted[1].content = <<"a">>
  /\ emitted[2].title = <<"b">>

\* ---- C22
\* C22: the sections of the ThinkingTrace component are the sections the
\* parser produced for the same string, titles and contents in order.
C22_SameSections ==
  finalized.called => sections = emitted \o finalized.section
\* ---- C23
\* the prefixes of text that end at a line break
C23_LinePrefixes(text) ==
  {SubSeq(text, 1, i) : i \in {j \in 1..Len(text) : text[j] = "\n"}}

\* line was flushed when it first became complete at a line break
C23_FlushedWhenComplete(line) ==
  /\ line \in C23_LinePrefixes(line)
  /\ isMarkdownComplete(line)
  /\ \A prefix \in C23_LinePrefixes(line) \ {line} :
        ~isMarkdownComplete(prefix)

C23_Step ==
  (/\ isStreaming /\ isStreaming'
   /\ contentProp' # contentProp /\ contentProp' # <<>>)
  => /\ Len(lines') >= Len(lines)
     /\ SubSeq(lines', 1, Len(lines)) = lines
     /\ \A i \in (Len(lines) + 1)..Len(lines') :
           C23_FlushedWhenComplete(lines'[i].content)
     /\ \A prefix \in C23_LinePrefixes(bufferRef') :
           ~isMarkdownComplete(prefix)
     /\ isBuffering' = (bufferRef' # <<>>)

\* C23: while streaming, every line the buffer flushes is text accumulated
\* from the start of a chunk that ends at a line break and is
\* markdown-complete, flushed as one line as soon as its markers balance;
\* text that is unbalanced at every line break stays in the buffer, and
\* isBuffering is true while the buffer holds text.
C23_FlushesOnlyCompleteLines == [][C23_Step]_vars

\* an unbalanced marker was held across two line breaks and the text was
\* flushed as one line when the marker was closed
C23_Witness ==
  /\ isStreaming
  /\ Len(lines) = 1
  /\ lines[1].content = <<"*", "*", "\n", "\n", "*", "*", "\n">>
  /\ bufferRef = <<>>

\* ---- C24
C24_Step ==
  (isStreaming /\ ~isStreaming')
  => LET before == IF contentProp' # contentProp
                   THEN contentEffect(HookState, contentProp') ELSE HookState
     IN /\ bufferRef' = <<>>
        /\ ~isBuffering'
        /\ before.bufferRef # <<>>
           => /\ Len(lines') = Len(before.lines) + 1
              /\ SubSeq(lines', 1, Len(before.lines)) = before.lines
              /\ lines'[Len(lines')].content = before.bufferRef
        /\ before.bufferRef = <<>> => lines' = before.lines

\* C24: when isStreaming becomes false while the buffer holds text, complete
\* or not, the whole buffer is appended as exactly one final line; afterwards
\* the buffer is empty and isBuffering is false.
C24_ForceFlush == [][C24_Step]_vars

\* streaming has ended and the one line is text with an unclosed fence
C24_Witness ==
  /\ ~isStreaming
  /\ Len(lines) = 1
  /\ lines[1].content = Fence \o <<"\n", "a">>
  /\ bufferRef = <<>>
  /\ ~isBuffering

\* the documents of conversation c with id id, before and after a step
C25_Stored(dbc, c, id) ==
  IF c \in DOMAIN dbc
  THEN {dbc[c][i] : i \in {j \in 1..Len(dbc[c]) : dbc[c][j].id = id}}
  ELSE {}

C25_OpenFor(sources, id) ==
  {es \in 1..Len(sources) : sources[es].open /\ sources[es].doc.id = id}

C25_Step ==
  \A es \in 1..Len(eventSources), payload \in DocumentEvents :
    OnDocumentEvent(es, payload)
    => LET id == eventSources[es].doc.id
           c == eventSources[es].conversationId
       IN /\ id \notin terminated
          /\ payload.type \in {"persisted", "failed"}
             => /\ C25_OpenFor(eventSources', id) = {}
                /\ id \notin DOMAIN documentStreamsRef'
                /\ \A before \in C25_Stored(documentsByConversation, c, id) :
                     before.status = "processing"
                     => \A after \in C25_Stored(documentsByConversation', c, id) :
                          /\ (payload.type = "persisted"
                              /\ payload.chunk_count # NoCount)
                             => /\ after.status = "ready"
                                /\ after.chunkCount = payload.chunk_count
                          /\ payload.type = "failed"
                             => /\ after.status = "failed"
                                /\ after.errorMessage = payload.error
                                /\ after.chunkCount = before.chunkCount

\* C25: a persisted event makes a processing document ready with the chunk
\* count of the event; a failed event makes it failed with exactly the error
\* of the event and leaves its chunk count as it was; either event closes the
\* subscription, and no event is handled for a document after its persisted or
\* failed event.
C25_TerminalEvents == [][C25_Step]_vars

\* a document that had one chunk has failed with the error of the event, and
\* another one is ready with one chunk
C25_Witness ==
  /\ terminated = DocumentIds
  /\ \E d \in C25_Stored(documentsByConversation, "A", "d1") :
       /\ d.status = "failed"
       /\ "errorMessage" \in DOMAIN d
       /\ d.errorMessage = "boom"
       /\ d.chunkCount = 1
  /\ \E d \in C25_Stored(documentsByConversation, "A", "d2") :
       d.status = "ready" /\ d.chunkCount = 1

C26_Step ==
  \A c \in DOMAIN documentsByConversation :
    \A before \in {documentsByConversation[c][i] :
                     i \in 1..Len(documentsByConversation[c])} :
      \A after \in C25_Stored(documentsByConversation', c, before.id) :
        (before.status = "processing" /\ after.status = "processing")
        => after.chunkCount >= before.chunkCount

\* C26: while a document is processing, and the counts the events report do
\* not go back, no step lowers the chunkCount stored for it.
C26_ChunkCountNeverDecreases == [][C26_Step]_vars

\* C28: no document has two open event sources; every open event source is
\* the one the map holds for its document and was opened for the conversation
\* the mounted composer shows, so none stays open after the conversation
\* changes or the composer unmounts.
C28_OneSubscription ==
  \A es \in 1..Len(eventSources) :
    eventSources[es].open
    => /\ composerMounted
       /\ eventSources[es].conversationId = composerConversationId
       /\ eventSources[es].doc.id \in DOMAIN documentStreamsRef
       /\ documentStreamsRef[eventSources[es].doc.id] = es

\* the composer has left a conversation with two processing documents: both
\* subscriptions were opened and are closed
C28_Witness ==
  /\ composerConversationId # "A"
  /\ Len(documentsOf(documentsByConversation, "A")) = 2
  /\ \A i \in 1..2 : documentsByConversation["A"][i].status = "processing"
  /\ Len(eventSources) >= 2
  /\ \A es \in 1..Len(eventSources) : ~eventSources[es].open

C27_Step ==
  (\E i \in 1..Len(pendingDocuments) : pendingDocuments[i].status = "processing")
  => /\ messagesByConversation' = messagesByConversation
     /\ inFlight' = inFlight

\* C27: while some pending document is processing, no step of the composer
\* appends a message to the store or has a frame accepted for sending.
C27_NoSubmitWhileProcessing == [][C27_Step]_vars

\* the first message of the conversation a title request names
C29_Message(request) ==
  messagesByConversation'[request.conversationId][1].content

\* 0-based positions from `from` to 49 at which m has a space
C29_Spaces(m, from) ==
  {p \in from..49 : p < Len(m) /\ m[p + 1] = " "}

C29_Requested ==
  /\ Len(titleRequests') = Len(titleRequests) + 1
  /\ SubSeq(titleRequests', 1, Len(titleRequests)) = titleRequests

C29_AmendedStep ==
  C29_Requested
  => LET request == titleRequests'[Len(titleRequests')]
         m == C29_Message(request)
         spaces == C29_Spaces(m, 1)
     IN /\ Len(m) <= 50 => request.title = m
        /\ (Len(m) > 50 /\ spaces # {})
           => request.title = SubSeq(m, 1, MaxOf(spaces)) \o <<".", ".", ".">>
        /\ (Len(m) > 50 /\ spaces = {})
           => request.title = SubSeq(m, 1, 50) \o <<".", ".", ".">>

\* C29 (amended): the title requested for a first message m is m itself when
\* m has at most 50 characters; when m has more, it is m cut at the last
\* space among its first 50 characters and suffixed with "...", and when
\* these hold no space it is the first 50 characters suffixed with "...".
C29_AutoTitle == [][C29_AmendedStep]_vars

C29_OriginalStep ==
  C29_Requested
  => LET request == titleRequests'[Len(titleRequests')]
         m == C29_Message(request)
         spaces == C29_Spaces(m, 0)
     IN /\ Len(m) <= 50 => request.title = m
        /\ Len(m) > 50
           => /\ spaces # {}
              /\ request.title
                   = SubSeq(m, 1, MaxOf(spaces)) \o <<".", ".", ".">>

\* C29 (as stated): the title of a first message of more than 50 characters
\* is the message cut at the last space before position 50, suffixed with
\* "...".
C29_AutoTitleAsStated == [][C29_OriginalStep]_vars

\* titles were requested for a message of 51 letters without a space: its
\* first 50 letters and the dots
C29_Witness ==
  /\ titleRequests # <<>>
  /\ titleRequests[1].conversationId = "A"
  /\ messagesByConversation["A"][1].content = Word(51)
  /\ titleRequests[1].title = Word(50) \o <<".", ".", ".">>

\* min(1000 * 2^k, 10000): 1000 * 2^k is above 10000 from k = 4 on
C30_Backoff(k) == IF k < 4 THEN 1000 * 2^k ELSE 10000

C30_Step ==
  /\ attempts' # attempts
     => /\ attempts' = attempts + 1
        /\ attempts' <= 30
        /\ healthCheck = "fetching"
        /\ healthCheck' \in {"waiting", "done"}
        \* the attempt succeeded
        /\ healthCheck' = "done" => backendReady'
        \* attempt number k, from 0, failed
        /\ healthCheck' = "waiting"
           => /\ delay' = C30_Backoff(attempts)
              /\ backendReady' = backendReady
  /\ healthCheck = "done" => /\ attempts' = attempts
                             /\ healthCheck' = "done"
                             /\ backendReady' = backendReady
  /\ (healthCheck = "waiting" /\ healthCheck' = "done")
     => attempts = 30 /\ ~backendReady'

C30_Done ==
  /\ attempts <= 30
  /\ backendReady => healthCheck = "done"
  /\ healthCheck = "done" => (backendReady \/ attempts = 30)

\* C30: the health check makes at most 30 attempts, sets the timer of
\* min(1000 * 2^k, 10000) ms after failed attempt k, sets backendReady at the
\* first attempt that succeeds and makes no attempt after it, ends with
\* backendReady false only when 30 attempts have failed, and always ends.
C30_HealthCheckTerminates ==
  /\ [][C30_Step]_vars
  /\ []C30_Done
  /\ <>(healthCheck = "done")

\* the fourth attempt succeeded, after timers of 1000, 2000 and 4000 ms
C30_Witness ==
  /\ healthCheck = "done"
  /\ backendReady
  /\ attempts = 4
  /\ delay = 4000

\* text holds part as a run of consecutive pieces
C31_Holds(text, part) ==
  \E i \in 0..(Len(text) - Len(part)) : SubSeq(text, i + 1, i + Len(part)) = part

C31_Step ==
  \A s \in SockIds, c \in Conversations, m \in ErrorTexts :
    (/\ OnError(s, c, m)
     /\ isConversationStreaming(streamingByConversation, c)
     /\ streamingByConversation[c].content # <<>>)
    => \E i \in (Len(getMessages(messagesByConversation, c)) + 1)
                ..Len(getMessages(messagesByConversation', c)) :
         C31_Holds(messagesByConversation'[c][i].content,
                   streamingByConversation[c].content)

\* C31: when an error event is handled for a conversation whose streaming
\* message has content, a message appended to the list of that conversation
\* in this step holds that content.
C31_ErrorKeepsPartial == [][C31_Step]_vars

C32_Step ==
  \A sm \in ListsOver(ServerMessages, MaxList) :
     LET local == MessagesOf(messagesByConversation, "A")
         after == MessagesOf(messagesByConversation', "A")
     IN (/\ Reconcile("A", sm)
         /\ "A" \notin DOMAIN streamingByConversation
         /\ Len(local) > 0
         /\ Len(sm) > Len(local))
        => /\ Len(after) = Len(sm)
           /\ \A i \in 1..Len(local) :
                (/\ "documents" \in DOMAIN local[i]
                 /\ local[i].role = sm[i].role)
                => /\ "documents" \in DOMAIN after[i]
                   /\ after[i].documents = local[i].documents

\* C32: when the server's list is longer than the non-empty local list, the
\* adopted list has, at every position of the local list whose local message
\* has documents and the role of the server's message, those documents.
C32_LongerServerListKeepsDocuments == [][C32_Step]_vars

\* conversation c got its first message in this step and the list of
\* conversations has it with the default title
C33_FirstMessageOfUntitled(c) ==
  /\ getMessages(messagesByConversation, c) = <<>>
  /\ Len(getMessages(messagesByConversation', c)) = 1
  /\ messagesByConversation'[c][1].role = "user"
  /\ \E i \in 1..Len(conversationsCache'.data) :
       /\ conversationsCache'.data[i].id = c
       /\ conversationsCache'.data[i].title = "New Conversation"

C33_Step ==
  \A c \in Conversations :
    C33_FirstMessageOfUntitled(c)
    => /\ Len(titleRequests') = Len(titleRequests) + 1
       /\ titleRequests'[Len(titleRequests')].conversationId = c
       /\ titleRequests'[Len(titleRequests')].title
            = autoTitle(messagesByConversation'[c][1].content)

\* C33: a submit that appends the first message of a conversation whose title
\* is "New Conversation", whether the conversation was in the list before or
\* was created by this submit, requests the rename of that conversation to the
\* auto-title of the message.
C33_FirstMessageRenames == [][C33_Step]_vars

\* C34: while the composer is mounted and no creation of a conversation is in
\* flight, the active conversation of the store is the conversation of the
\* route, and none on the home route.
C34_ActiveMirrorsRoute ==
  (composerMounted /\ ~isCreatingConversation /\ createCallbacks = {})
  => activeConversationId = composerConversationId

\* the contents of the lines, in order, as one text
RECURSIVE C35_Text(_)
C35_Text(ls) ==
  IF ls = <<>> THEN <<>> ELSE Head(ls).content \o C35_Text(Tail(ls))

C35_Step ==
  (/\ contentProp # <<>>
   /\ contentProp' # <<>>
   /\ ~startsWith(contentProp', contentProp)
   /\ isStreaming /\ isStreaming')
  => /\ C35_Text(lines') \o bufferRef' = contentProp'
     /\ previousContentRef' = contentProp'
     /\ processedLengthRef' = Len(contentProp')

\* C35: when the content changes to a text that does not extend the content
\* seen before, the lines followed by the buffer are afterwards exactly the
\* new content: the whole new text was processed and no line of the old
\* content is left.
C35_ReplacementReprocesses == [][C35_Step]_vars

C36_Step ==
  \A sm \in ListsOver(ServerMessages, MaxList) :
     LET local == MessagesOf(messagesByConversation, "A")
         after == MessagesOf(messagesByConversation', "A")
     IN Reconcile("A", sm)
        => /\ Len(after) >= Len(local)
           /\ \A i \in 1..Len(local) :
                \/ after[i] = local[i]
                \/ /\ i <= Len(sm)
                   /\ \/ after[i] = sm[i]
                      \/ /\ "documents" \in DOMAIN local[i]
                         /\ after[i] = WithDocuments(sm[i], local[i].documents)

\* C36: for every server response the local list of the conversation is
\* afterwards at least as long as before, and every position of the old list
\* holds afterwards the local message that was there, or the server's message
\* of that position (with the local message's documents when merged): no
\* local message moves to another position.
C36_NeverReordersOrDrops == [][C36_Step]_vars

\* a server list of two messages was merged into a local list of two: the
\* first message has the server's content and the local documents
C36_Witness ==
  /\ "A" \in DOMAIN conversationData
  /\ conversationData["A"] =
        <<[role |-> "user", content |-> <<"v">>],
          [role |-> "assistant", content |-> <<"x">>, thinking |-> <<"t">>]>>
  /\ MessagesOf(messagesByConversation, "A") =
        <<[role |-> "user", content |-> <<"v">>, documents |-> <<"d1">>],
          [role |-> "assistant", content |-> <<"x">>, thinking |-> <<"t">>]>>

\* every socket is open or closed with its close event dispatched: no open,
\* error or close event is waiting to be delivered
C37_NoEventPending ==
  \A s \in SockIds : readyState[s] \notin {"CONNECTING", "CLOSING"}

C37_CurrentSocketOpen ==
  /\ wsRef # NoSocket
  /\ readyState[wsRef] = "OPEN"

\* C37: whenever no socket event is waiting to be delivered, isConnected is
\* true if and only if the socket the manager currently owns is open.
C37_ConnectedMirrorsSocket ==
  C37_NoEventPending => (isConnected <=> C37_CurrentSocketOpen)

\* a user message was appended to the list of conversation c in this step
C38_Appended(c) ==
  LET before == MessagesOf(messagesByConversation, c)
      after == MessagesOf(messagesByConversation', c)
  IN /\ Len(after) = Len(before) + 1
     /\ after[Len(after)].role = "user"

C38_Step ==
  \A c \in Conversations :
     C38_Appended(c) => inFlight'[c] = inFlight[c] + 1

\* C38: every step that appends a user message to a conversation's list also
\* has the frame of that conversation accepted by sendMessage.
C38_AppendedMeansSent == [][C38_Step]_vars

C39_Step ==
  (/\ isStreaming
   /\ startsWith(contentProp', contentProp)
   /\ C35_Text(lines) \o bufferRef = contentProp)
  => /\ C35_Text(lines') \o bufferRef' = contentProp'
     /\ ~isStreaming' => C35_Text(lines') = contentProp'

\* C39: when the lines followed by the buffer are the content received so
\* far and the content grows by an append, the lines followed by the buffer
\* are afterwards the grown content, and the lines alone are the content when
\* the step ends the stream.
C39_NoTextLostOrDuplicated == [][C39_Step]_vars

\* the optimistic change of mutation m is in the cached list
C40_EffectIn(m, cache) ==
  IF m.kind = "delete" THEN m.conversationId \notin IdsOf(cache.data)
  ELSE m.conversationId \in IdsOf(cache.data)

\* other took its snapshot of the list right after m's optimistic removal
C40_StartedAfter(other, m) ==
  /\ other # m
  /\ other.conversationId # m.conversationId
  /\ m.previousConversations.loaded
  /\ m.conversationId \in IdsOf(m.previousConversations.data)
  /\ other.previousConversations =
        Loaded(Without(m.previousConversations.data, m.conversationId))

C40_Step ==
  \A m \in pendingMutations, other \in pendingMutations :
     (/\ DeleteError(m)
      /\ C40_StartedAfter(other, m)
      /\ C40_EffectIn(other, conversationsCache))
     => /\ m.conversationId \in IdsOf(conversationsCache'.data)
        /\ C40_EffectIn(other, conversationsCache')

\* C40: when the delete of X fails while another delete or create, started
\* after X's snapshot was taken, is pending with its optimistic change in
\* the cached list, then after X's rollback X is in the list again and the
\* other mutation's change is still there.
C40_RollbackUndoesOnlyItself == [][C40_Step]_vars
====
